---------------------------- MODULE Spec2Model ----------------------------
(***************************************************************************)
(* Klondike solitaire engine: cards, piles, game state, the Klondike rule  *)
(* set, the engine (new_game / draw / move / undo / redo) and the history  *)
(* manager.  Python lists are modelled as sequences whose LAST element is  *)
(* the top of the pile, exactly as in model/pile.py.                       *)
(***************************************************************************)
EXTENDS Integers, Sequences, FiniteSets, TLC

(***************************************************************************)
(* Bounds of the model                                                     *)
(***************************************************************************)
\* draw/recycle pushes are disabled once the history holds this many entries
MaxHist == 27
\* seeds offered to new_game
MaxSeed == 1
\* largest card count offered to move()
MaxCount == 2
\* undo is disabled when it would leave more entries than this after the cursor
MaxRedo == 3
\* largest card count offered to can_take and can_move
MaxTake == 3
\* GameState objects a HistoryManager and its caller may allocate between them
MaxObjects == 5
\* the small capacity a stand-alone HistoryManager may be constructed with
SmallLimit == 2

\* callbacks that may be registered, and the longest listener list
MaxCallbacks == 2

MaxListeners == 3

\* the most cards a Pile used on its own holds
MaxPile == 3

\* engines the HTTP bridge creates, and the entries a session's history holds
MaxEngines == 2

MaxSessionHist == 2

\* GameState objects an engine on the heap may allocate
MaxEngineObjects == 8

(***************************************************************************)
(* model/card.py                                                           *)
(***************************************************************************)
Suit == <<"HEARTS", "DIAMONDS", "CLUBS", "SPADES">>

SuitNames == {Suit[i] : i \in 1..4}

ACE == 1

KING == 13

Rank == ACE..KING

\* position of a suit in the Suit enumeration, 0-based
SuitIndex(s) == (CHOOSE i \in 1..4 : Suit[i] = s) - 1

\* A Card value (suit, rank, face_up) is coded as one integer:
\* 2 * (13 * SuitIndex(suit) + rank - 1) + (1 if face_up else 0).
\* suit, rank and face_up read the three fields back.
Card(s, r, up) == 2 * (13 * SuitIndex(s) + (r - 1)) + (IF up THEN 1 ELSE 0)

suit(c) == Suit[((c \div 2) \div 13) + 1]

rank(c) == ((c \div 2) % 13) + 1

face_up(c) == c % 2 = 1

color(c) == IF suit(c) \in {"HEARTS", "DIAMONDS"} THEN "red" ELSE "black"

make_face_up(c) == IF ~face_up(c) THEN Card(suit(c), rank(c), TRUE) ELSE c

make_face_down(c) == IF face_up(c) THEN Card(suit(c), rank(c), FALSE) ELSE c

(***************************************************************************)
(* model/pile.py                                                           *)
(***************************************************************************)
Min(a, b) == IF a < b THEN a ELSE b

Max(a, b) == IF a > b THEN a ELSE b

\* self[-n:] for n >= 1: the last n elements, the whole list if n > len
LastN(p, n) == SubSeq(p, Max(1, Len(p) - n + 1), Len(p))

\* del self[-n:] for n >= 1
DropLastN(p, n) == SubSeq(p, 1, Max(0, Len(p) - n))

peek(p, n) == IF n <= 0 THEN <<>> ELSE LastN(p, n)

top(p) == p[Len(p)]

is_empty(p) == Len(p) = 0

\* take that forgets `del self[-n:]`
take_without_del(p, n) ==
    IF n <= 0 \/ p = <<>>
    THEN [taken |-> <<>>, rest |-> p]
    ELSE [taken |-> LastN(p, n), rest |-> p]

\* take returns the lifted cards and what is left in the pile
take(p, n) ==
    IF n <= 0 \/ p = <<>>
    THEN [taken |-> <<>>, rest |-> p]
    ELSE [taken |-> LastN(p, n), rest |-> DropLastN(p, n)]

add(p, cards) == p \o cards

put(p, c) == Append(p, c)

\* a count that takes every card of the pile for face-up
face_up_count_all(p) == Len(p)

RECURSIVE face_up_count(_)
face_up_count(p) ==
    IF p = <<>> THEN 0
    ELSE IF face_up(top(p)) THEN 1 + face_up_count(SubSeq(p, 1, Len(p) - 1))
    ELSE 0

pile_copy(p) == [i \in 1..Len(p) |-> Card(suit(p[i]), rank(p[i]), face_up(p[i]))]

(***************************************************************************)
(* model/state.py                                                          *)
(***************************************************************************)
\* Python's None, for an absent state or an absent move
None == [none |-> TRUE]

TableauNames == {"tableau_0", "tableau_1", "tableau_2", "tableau_3",
                 "tableau_4", "tableau_5", "tableau_6"}

FoundationName(s) == "foundation_" \o s

FoundationNames == {FoundationName(s) : s \in SuitNames}

GameState(piles, stock, waste, score, moves_count) ==
    [piles |-> piles, stock |-> stock, waste |-> waste,
     score |-> score, moves_count |-> moves_count]

\* get_pile returns None for an unknown name; has_pile is "get_pile(..) is not None"
has_pile(st, name) == name \in {"stock", "waste"} \cup DOMAIN st.piles

get_pile(st, name) ==
    IF name = "stock" THEN st.stock
    ELSE IF name = "waste" THEN st.waste
    ELSE st.piles[name]

\* Python truthiness of an Optional[Pile]: None and the empty list are both falsy
truthy_pile(st, name) == has_pile(st, name) /\ get_pile(st, name) # <<>>

state_copy(st) ==
    GameState([n \in DOMAIN st.piles |-> pile_copy(st.piles[n])],
              pile_copy(st.stock), pile_copy(st.waste),
              st.score, st.moves_count)

\* assignment to one pile of a (copied) state
with_pile(st, name, p) ==
    IF name = "stock" THEN [st EXCEPT !.stock = p]
    ELSE IF name = "waste" THEN [st EXCEPT !.waste = p]
    ELSE [st EXCEPT !.piles[name] = p]

(***************************************************************************)
(* model/move.py                                                           *)
(***************************************************************************)
Move(from_pile, to_pile, cards, from_index, flipped_cards, score_delta) ==
    [from_pile |-> from_pile, to_pile |-> to_pile, cards |-> cards,
     from_index |-> from_index, flipped_cards |-> flipped_cards,
     score_delta |-> score_delta]


(***************************************************************************)
(* model/rules/base.py and model/rules/klondike.py                         *)
(***************************************************************************)
\* names that start with "tableau_" but name no pile of a Klondike state
UnknownTableau == "tableau_9"

\* a name with no known prefix
UnknownPile == "cellar"

PileNames == {"stock", "waste"} \cup TableauNames \cup FoundationNames

get_pile_type(name) ==
    IF name \in TableauNames \cup {UnknownTableau} THEN "TABLEAU"
    ELSE IF name \in FoundationNames THEN "FOUNDATION"
    ELSE IF name = "stock" THEN "STOCK"
    ELSE IF name = "waste" THEN "WASTE"
    ELSE "RESERVE"

\* a tableau rule that forgets the colours
_can_build_tableau_any_colour(pile, cards) ==
    IF cards = <<>> THEN FALSE
    ELSE IF is_empty(pile) THEN rank(cards[1]) = KING
    ELSE rank(top(pile)) = rank(cards[1]) + 1

_can_build_tableau(pile, cards) ==
    IF cards = <<>> THEN FALSE
    ELSE IF is_empty(pile) THEN rank(cards[1]) = KING
    ELSE /\ color(top(pile)) # color(cards[1])
         /\ rank(top(pile)) = rank(cards[1]) + 1

\* a foundation rule that forgets the rank of the card it is given
_can_build_foundation_any_rank(pile, cards) ==
    IF Len(pile) >= 13 THEN FALSE
    ELSE IF Len(cards) # 1 THEN FALSE
    ELSE IF is_empty(pile) THEN TRUE
    ELSE suit(top(pile)) = suit(cards[1])

\* a foundation rule that forgets the suit
_can_build_foundation_any_suit(pile, cards) ==
    IF Len(pile) >= 13 THEN FALSE
    ELSE IF Len(cards) # 1 THEN FALSE
    ELSE IF is_empty(pile) THEN rank(cards[1]) = ACE
    ELSE rank(cards[1]) = rank(top(pile)) + 1

_can_build_foundation(pile, cards) ==
    IF Len(pile) >= 13 THEN FALSE
    ELSE IF Len(cards) # 1 THEN FALSE
    ELSE IF is_empty(pile) THEN rank(cards[1]) = ACE
    ELSE /\ suit(top(pile)) = suit(cards[1])
         /\ rank(cards[1]) = rank(top(pile)) + 1

can_draw(st) == ~is_empty(st.stock) \/ ~is_empty(st.waste)

\* can_take that lets any number of cards leave the waste
can_take_waste_any_count(st, pile_name, count) ==
    IF ~truthy_pile(st, pile_name) THEN FALSE
    ELSE IF get_pile_type(pile_name) = "TABLEAU"
         THEN face_up_count(get_pile(st, pile_name)) >= count
    ELSE IF get_pile_type(pile_name) = "WASTE"
         THEN ~is_empty(get_pile(st, pile_name))
    ELSE FALSE

can_take(st, pile_name, count) ==
    IF ~truthy_pile(st, pile_name) THEN FALSE
    ELSE IF get_pile_type(pile_name) = "TABLEAU"
         THEN face_up_count(get_pile(st, pile_name)) >= count
    ELSE IF get_pile_type(pile_name) = "WASTE"
         THEN ~is_empty(get_pile(st, pile_name)) /\ count = 1
    ELSE FALSE

\* build_rules holds a rule for TABLEAU and FOUNDATION only; the call with
\* three arguments raises TypeError and falls back to rule(target, cards)
can_drop(st, target_name, cards) ==
    IF get_pile_type(target_name) = "TABLEAU"
    THEN _can_build_tableau(get_pile(st, target_name), cards)
    ELSE IF get_pile_type(target_name) = "FOUNDATION"
    THEN _can_build_foundation(get_pile(st, target_name), cards)
    ELSE FALSE

_validate_basic(st, mv) ==
    IF ~has_pile(st, mv.from_pile) \/ ~has_pile(st, mv.to_pile) THEN FALSE
    ELSE IF is_empty(get_pile(st, mv.from_pile)) THEN FALSE
    ELSE IF Len(mv.cards) > Len(get_pile(st, mv.from_pile)) THEN FALSE
    ELSE IF mv.from_pile = mv.to_pile THEN FALSE
    ELSE TRUE

_validate_tableau_sequence(st, mv) ==
    IF get_pile_type(mv.from_pile) # "TABLEAU" THEN TRUE
    ELSE IF ~has_pile(st, mv.from_pile) THEN FALSE
    ELSE IF Len(mv.cards) > face_up_count(get_pile(st, mv.from_pile)) THEN FALSE
    ELSE LET cards_from_end == peek(get_pile(st, mv.from_pile), Len(mv.cards))
         IN  \A i \in 1..(Len(cards_from_end) - 1) :
                /\ color(cards_from_end[i]) # color(cards_from_end[i + 1])
                /\ rank(cards_from_end[i]) = rank(cards_from_end[i + 1]) + 1

\* can_move that does not ask can_take
can_move_without_can_take(st, mv) ==
    /\ _validate_basic(st, mv)
    /\ can_drop(st, mv.to_pile, mv.cards)
    /\ _validate_tableau_sequence(st, mv)

can_move(st, mv) ==
    /\ _validate_basic(st, mv)
    /\ can_take(st, mv.from_pile, Len(mv.cards))
    /\ can_drop(st, mv.to_pile, mv.cards)
    /\ _validate_tableau_sequence(st, mv)

\* RuleSet.calculate_score is not overridden by KlondikeRules
calculate_score(st, mv) == 0

score_draw(previous_state, cards) == 0

score_recycle(three) == IF three THEN -20 ELSE -10

get_draw_count(three) == IF three THEN 3 ELSE 1

\* a win check that is content with one full foundation
_check_one_foundation_full(st) ==
    \E i \in 1..4 :
        /\ FoundationName(Suit[i]) \in DOMAIN st.piles
        /\ Len(st.piles[FoundationName(Suit[i])]) = 13

_check_all_foundations_full(st) ==
    \A i \in 1..4 :
        /\ FoundationName(Suit[i]) \in DOMAIN st.piles
        /\ Len(st.piles[FoundationName(Suit[i])]) = 13

check_win(st) == _check_all_foundations_full(st)

\* a deal that turns every dealt card face-up
deal_column_all_up(deck, lo, hi) ==
    [i \in 1..(hi - lo + 1) |->
        Card(suit(deck[lo + i - 1]), rank(deck[lo + i - 1]), TRUE)]

\* the cards of deck[lo..hi], the last one turned face-up (one tableau column)
deal_column(deck, lo, hi) ==
    [i \in 1..(hi - lo + 1) |->
        Card(suit(deck[lo + i - 1]), rank(deck[lo + i - 1]), i = hi - lo + 1)]

\* column col (0..6) holds deck positions col*(col+1)/2 + 1 .. (col+1)*(col+2)/2
deal(deck) ==
    [n \in TableauNames \cup FoundationNames |->
        IF n \in FoundationNames THEN <<>>
        ELSE LET col == CHOOSE c \in 0..6 :
                            n = <<"tableau_0", "tableau_1", "tableau_2", "tableau_3",
                                  "tableau_4", "tableau_5", "tableau_6">>[c + 1]
             IN  deal_column(deck, (col * (col + 1)) \div 2 + 1,
                                   ((col + 1) * (col + 2)) \div 2)]


(***************************************************************************)
(* model/rules/klondike.py -- the listing of the available moves and the   *)
(* hint                                                                    *)
(***************************************************************************)
Columns == <<"tableau_0", "tableau_1", "tableau_2", "tableau_3",
             "tableau_4", "tableau_5", "tableau_6">>

\* what a method that builds a list of Moves comes to: the list it returns,
\* or the TypeError of a call with an argument the callee does not take
Moves(list) == [raised |-> "", moves |-> list]

TypeError == [raised |-> "TypeError", moves |-> <<>>]

\* `from model import Move` inside get_available_moves: model/__init__.py
\* exports the Move of state.py, whose fields are from_pile, to_pile, cards,
\* flipped, score_delta and timestamp.  Every construction in
\* get_available_moves passes from_index, which that class does not take.
state_Move(from_pile, to_pile, cards, from_index) == TypeError

_is_valid_sequence(cards) ==
    IF Len(cards) <= 1 THEN TRUE
    ELSE \A i \in 1..(Len(cards) - 1) :
            /\ color(cards[i]) # color(cards[i + 1])
            /\ rank(cards[i]) = rank(cards[i + 1]) + 1

\* section 2 of get_available_moves: the first column that is not empty and
\* shows a face-up card reaches, with take_count = 1 and the first other
\* column as target, the construction of a Move
_moves_from_tableau(st) ==
    IF \E c \in 1..7 :
          LET pile == st.piles[Columns[c]]
          IN  /\ pile # <<>>
              /\ face_up_count(pile) # 0
              /\ _is_valid_sequence(peek(pile, 1))
    THEN LET c    == CHOOSE c \in 1..7 :
                         /\ st.piles[Columns[c]] # <<>>
                         /\ face_up_count(st.piles[Columns[c]]) # 0
             pile == st.piles[Columns[c]]
             to   == CHOOSE k \in 1..7 : k # c /\ \A l \in 1..(k - 1) : l = c
         IN  state_Move(Columns[c], Columns[to], peek(pile, 1), Len(pile) - 1)
    ELSE Moves(<<>>)

FoundationsInOrder == [k \in 1..4 |-> FoundationName(Suit[k])]

\* section 3: the first foundation that is not empty reaches the
\* construction of a Move to tableau_0
_moves_from_foundation(st) ==
    IF \E k \in 1..4 : st.piles[FoundationsInOrder[k]] # <<>>
    THEN LET k    == CHOOSE k \in 1..4 : st.piles[FoundationsInOrder[k]] # <<>>
             pile == st.piles[FoundationsInOrder[k]]
         IN  state_Move(FoundationsInOrder[k], Columns[1], <<top(pile)>>,
                        Len(pile) - 1)
    ELSE Moves(<<>>)

\* section 4: a waste that is not empty reaches the construction of a Move
\* to the first foundation
_moves_from_waste(st) ==
    IF st.waste # <<>>
    THEN state_Move("waste", FoundationsInOrder[1], <<top(st.waste)>>,
                    Len(st.waste) - 1)
    ELSE Moves(<<>>)

move_key(m) == <<m.from_pile, m.to_pile, Len(m.cards)>>

RECURSIVE unique_moves(_, _)
unique_moves(moves, move_keys) ==
    IF moves = <<>> THEN <<>>
    ELSE IF move_key(Head(moves)) \in move_keys
         THEN unique_moves(Tail(moves), move_keys)
         ELSE <<Head(moves)>>
              \o unique_moves(Tail(moves), move_keys \cup {move_key(Head(moves))})

\* the sections run in order; the first TypeError leaves the method
get_available_moves(st) ==
    IF _moves_from_tableau(st) = TypeError THEN TypeError
    ELSE IF _moves_from_foundation(st) = TypeError THEN TypeError
    ELSE IF _moves_from_waste(st) = TypeError THEN TypeError
    ELSE Moves(unique_moves(_moves_from_tableau(st).moves
                            \o _moves_from_foundation(st).moves
                            \o _moves_from_waste(st).moves, {}))

\* get_hint comes to a Move, to None, or to the TypeError of the listing
get_hint(st) ==
    LET listing == get_available_moves(st)
        moves   == listing.moves
    IN  IF listing = TypeError THEN [raised |-> "TypeError", hint |-> None]
        ELSE IF moves = <<>> THEN [raised |-> "", hint |-> None]
        ELSE LET foundation_moves ==
                     SelectSeq(moves, LAMBDA m : m.to_pile \in FoundationNames)
                 waste_moves ==
                     SelectSeq(moves, LAMBDA m : /\ m.to_pile \notin FoundationNames
                                                /\ m.from_pile = "waste")
                 tableau_moves ==
                     SelectSeq(moves, LAMBDA m : /\ m.to_pile \notin FoundationNames
                                                /\ m.from_pile # "waste")
             IN  [raised |-> "",
                  hint |-> IF foundation_moves # <<>> THEN foundation_moves[1]
                           ELSE IF waste_moves # <<>> THEN waste_moves[1]
                           ELSE IF tableau_moves # <<>> THEN tableau_moves[1]
                           ELSE moves[1]]


(***************************************************************************)
(* model/history.py -- a history is [entries, current]; current is the     *)
(* 0-based index of the code, so the entry it designates is                *)
(* entries[current + 1].                                                   *)
(***************************************************************************)
HistoryEntry(st, mv) == [state |-> st, move |-> mv]

History_clear(h) == [entries |-> <<>>, current |-> -1]

History_push(h, st, mv, limit) ==
    LET kept     == SubSeq(h.entries, 1, h.current + 1)
        appended == Append(kept, HistoryEntry(state_copy(st), mv))
        cur      == h.current + 1
    IN  IF Len(appended) > limit
        THEN [entries |-> Tail(appended), current |-> Max(-1, cur - 1)]
        ELSE [entries |-> appended, current |-> cur]

\* can_undo that lets the cursor leave the initial entry
can_undo_from_zero(h) == h.current >= 0

can_undo(h) == h.current > 0

can_redo(h) == h.current < Len(h.entries) - 1

\* undo that reads the entry before it moves the cursor
History_undo_stale(h) ==
    IF ~can_undo(h) THEN [h |-> h, result |-> None]
    ELSE [h      |-> [h EXCEPT !.current = h.current - 1],
          result |-> state_copy(h.entries[h.current + 1].state)]

\* undo and redo return the new history and the returned state (None on failure)
History_undo(h) ==
    IF ~can_undo(h) THEN [h |-> h, result |-> None]
    ELSE [h      |-> [h EXCEPT !.current = h.current - 1],
          result |-> state_copy(h.entries[h.current].state)]

History_redo(h) ==
    IF ~can_redo(h) THEN [h |-> h, result |-> None]
    ELSE [h      |-> [h EXCEPT !.current = h.current + 1],
          result |-> state_copy(h.entries[h.current + 2].state)]

(***************************************************************************)
(* model/engine.py -- the outcome of each call as a function of the        *)
(* engine's fields: the returned value, the new _state, the new history    *)
(* and the events notified during the call, in order.                      *)
(***************************************************************************)
\* SolitaireEngine.__init__: HistoryManager(limit=5000)
HistoryLimit == 5000

\* trail lists, in order, the values the call assigned to self._state
Outcome(r, st, h, ev, trail) ==
    [ret |-> r, state |-> st, h |-> h, events |-> ev, trail |-> trail]

\* a call that returns False before it assigns or notifies anything
Rejected(st, h) == Outcome("False", st, h, <<>>, <<>>)

Event(name, data) == [event |-> name, data |-> data]

\* random.Random(seed).shuffle of the 52 cards listed suit by suit, rank by
\* rank.  The generator is a library; a seed stands for one fixed permutation
\* of the 52 positions: seed 0 for the list in order, seed k > 0 for
\* i -> (7 * i + k) mod 52
ShuffleIndex(seed, i) == IF seed = 0 THEN i ELSE (7 * i + seed) % 52

\* a deck whose cards are created face-up
_create_shuffled_deck_face_up(seed) ==
    [i \in 1..52 |->
        LET j == ShuffleIndex(seed, i - 1)
        IN  Card(Suit[(j \div 13) + 1], (j % 13) + 1, TRUE)]

_create_shuffled_deck(seed) ==
    [i \in 1..52 |->
        LET j == ShuffleIndex(seed, i - 1)
        IN  Card(Suit[(j \div 13) + 1], (j % 13) + 1, FALSE)]

\* sum(len(p) for p in piles.values())
RECURSIVE SumLen(_, _)
SumLen(piles, names) ==
    IF names = {} THEN 0
    ELSE LET n == CHOOSE x \in names : TRUE
         IN  Len(piles[n]) + SumLen(piles, names \ {n})

\* new_game that pushes the deal without clearing the history
Engine_new_game_no_clear(h, seed) ==
    LET deck        == _create_shuffled_deck(seed)
        dealt_piles == deal(deck)
        dealt_count == SumLen(dealt_piles, DOMAIN dealt_piles)
        st          == GameState(dealt_piles, SubSeq(deck, dealt_count + 1, 52),
                                 <<>>, 0, 0)
    IN  Outcome("None", st,
                History_push(h, state_copy(st), None, HistoryLimit),
                <<Event("game_started", [seed |-> seed])>>, <<st>>)

Engine_new_game(h, seed) ==
    LET deck        == _create_shuffled_deck(seed)
        dealt_piles == deal(deck)
        dealt_count == SumLen(dealt_piles, DOMAIN dealt_piles)
        st          == GameState(dealt_piles, SubSeq(deck, dealt_count + 1, 52),
                                 <<>>, 0, 0)
    IN  Outcome("None", st,
                History_push(History_clear(h), state_copy(st), None, HistoryLimit),
                <<Event("game_started", [seed |-> seed])>>, <<st>>)

\* _recycle_stock that does not push the recycled state
_recycle_stock_no_push(self_state, new_state, h, three) ==
    IF is_empty(new_state.waste)
    THEN [ok |-> FALSE, new_state |-> new_state, h |-> h, events |-> <<>>]
    ELSE LET t     == take(new_state.waste, Len(new_state.waste))
             cards == [i \in 1..Len(t.taken) |-> make_face_down(t.taken[i])]
             ns    == [new_state EXCEPT !.waste = t.rest,
                                        !.stock = add(new_state.stock, cards)]
         IN  [ok |-> TRUE, new_state |-> ns, h |-> h,
              events |-> <<Event("recycle", [count |-> Len(cards)])>>]

\* _recycle_stock that leaves the recycled cards face-up
_recycle_stock_face_up(self_state, new_state, h, three) ==
    IF is_empty(new_state.waste)
    THEN [ok |-> FALSE, new_state |-> new_state, h |-> h, events |-> <<>>]
    ELSE LET t     == take(new_state.waste, Len(new_state.waste))
             cards == t.taken
             ns    == [new_state EXCEPT !.waste = t.rest,
                                        !.stock = add(new_state.stock, cards)]
             mv    == Move("waste", "stock", cards, 0,
                           [i \in 1..Len(cards) |-> <<"waste", i - 1>>],
                           score_recycle(three))
         IN  [ok |-> TRUE, new_state |-> ns,
              h |-> History_push(h, state_copy(ns), mv, HistoryLimit),
              events |-> <<Event("recycle", [count |-> Len(cards)])>>]

\* _recycle_stock mutates new_state and pushes it; self._state is left alone
_recycle_stock(self_state, new_state, h, three) ==
    IF is_empty(new_state.waste)
    THEN [ok |-> FALSE, new_state |-> new_state, h |-> h, events |-> <<>>]
    ELSE LET t     == take(new_state.waste, Len(new_state.waste))
             cards == [i \in 1..Len(t.taken) |-> make_face_down(t.taken[i])]
             ns    == [new_state EXCEPT !.waste = t.rest,
                                        !.stock = add(new_state.stock, cards)]
             mv    == Move("waste", "stock", cards, 0,
                           [i \in 1..Len(cards) |-> <<"waste", i - 1>>],
                           score_recycle(three))
         IN  [ok |-> TRUE, new_state |-> ns,
              h |-> History_push(h, state_copy(ns), mv, HistoryLimit),
              events |-> <<Event("recycle", [count |-> Len(cards)])>>]

\* the normal draw without make_face_up
draw_cards_face_down(self_state, new_state, h, three) ==
    LET actual_count == Min(get_draw_count(three), Len(new_state.stock))
        t     == take(new_state.stock, actual_count)
        cards == t.taken
        ns    == [new_state EXCEPT !.stock = t.rest,
                                   !.waste = add(new_state.waste, cards),
                                   !.moves_count = new_state.moves_count + 1]
        mv    == Move("stock", "waste", cards, Len(ns.stock), <<>>,
                      score_draw(self_state, cards))
    IN  Outcome("True", ns, History_push(h, state_copy(ns), mv, HistoryLimit),
                <<Event("draw", [count |-> actual_count])>>, <<ns>>)

\* the "normal draw" part of draw(), entered with a non-empty stock
draw_cards(self_state, new_state, h, three) ==
    LET actual_count == Min(get_draw_count(three), Len(new_state.stock))
        t     == take(new_state.stock, actual_count)
        cards == [i \in 1..Len(t.taken) |-> make_face_up(t.taken[i])]
        ns    == [new_state EXCEPT !.stock = t.rest,
                                   !.waste = add(new_state.waste, cards),
                                   !.moves_count = new_state.moves_count + 1]
        mv    == Move("stock", "waste", cards, Len(ns.stock), <<>>,
                      score_draw(self_state, cards))
    IN  Outcome("True", ns, History_push(h, state_copy(ns), mv, HistoryLimit),
                <<Event("draw", [count |-> actual_count])>>, <<ns>>)

\* draw() that returns after the recycle, without the second draw()
Engine_draw_no_retry(st, h, three) ==
    IF st = None THEN Rejected(st, h)
    ELSE IF ~can_draw(st) THEN Rejected(st, h)
    ELSE LET new_state == state_copy(st)
         IN  IF is_empty(new_state.stock)
             THEN LET r == _recycle_stock(st, new_state, h, three)
                  IN  IF ~r.ok THEN Rejected(st, h)
                      ELSE Outcome("True", r.new_state, r.h, r.events,
                                   <<r.new_state>>)
             ELSE draw_cards(st, new_state, h, three)

\* draw(): after a successful recycle the engine commits the recycled state
\* and calls draw() again, which then finds a non-empty stock
RECURSIVE Engine_draw(_, _, _)
Engine_draw(st, h, three) ==
    IF st = None THEN Rejected(st, h)
    ELSE IF ~can_draw(st) THEN Rejected(st, h)
    ELSE LET new_state == state_copy(st)
         IN  IF is_empty(new_state.stock)
             THEN LET r == _recycle_stock(st, new_state, h, three)
                  IN  IF ~r.ok THEN Rejected(st, h)
                      ELSE LET again == Engine_draw(r.new_state, r.h, three)
                           IN  [again EXCEPT
                                   !.events = r.events \o again.events,
                                   !.trail = <<r.new_state>> \o again.trail]
             ELSE draw_cards(st, new_state, h, three)

\* _execute_move: raised stands for the ValueError
_execute_move(self_state, from_pile, to_pile, count) ==
    LET new_state == state_copy(self_state)
    IN  IF ~truthy_pile(new_state, from_pile) \/ ~truthy_pile(new_state, to_pile)
        THEN [raised |-> TRUE, new_state |-> new_state, move |-> None]
        ELSE LET source     == get_pile(new_state, from_pile)
                 from_index == Len(source) - count
                 t          == take(source, count)
                 s1         == with_pile(new_state, from_pile, t.rest)
                 s2         == with_pile(s1, to_pile,
                                         add(get_pile(s1, to_pile), t.taken))
                 move_for_score == Move(from_pile, to_pile, t.taken, from_index,
                                        <<>>, 0)
                 score_delta == calculate_score(self_state, move_for_score)
                 s3         == [s2 EXCEPT !.score = s2.score + score_delta,
                                          !.moves_count = s2.moves_count + 1]
             IN  [raised |-> FALSE, new_state |-> s3,
                  move |-> Move(from_pile, to_pile, t.taken, from_index, <<>>,
                                score_delta)]

\* move() that executes on the live state before it asks can_move
Engine_move_execute_first(st, h, from_pile, to_pile, count) ==
    IF st = None THEN Rejected(st, h)
    ELSE LET x == _execute_move(st, from_pile, to_pile, count)
         IN  IF x.raised THEN Rejected(st, h)
             ELSE IF ~can_move(x.new_state, Move(from_pile, to_pile, <<>>, -1, <<>>, 0))
             THEN Outcome("False", x.new_state, h, <<>>, <<>>)
             ELSE Outcome("True", x.new_state,
                     History_push(h, state_copy(x.new_state), x.move, HistoryLimit),
                     <<Event("move_made",
                             [from |-> from_pile, to |-> to_pile,
                              count |-> count, score |-> x.new_state.score])>>,
                     <<x.new_state>>)

\* move() over a get_pile that raises KeyError for a name that names no pile
Engine_move_KeyError(st, h, from_pile, to_pile, count) ==
    IF st = None THEN Rejected(st, h)
    ELSE IF ~has_pile(st, from_pile) \/ ~has_pile(st, to_pile)
    THEN Outcome("KeyError", st, h, <<>>, <<>>)
    ELSE IF ~can_move(st, Move(from_pile, to_pile, <<>>, -1, <<>>, 0))
    THEN Rejected(st, h)
    ELSE LET x == _execute_move(st, from_pile, to_pile, count)
         IN  IF x.raised THEN Rejected(st, h)
             ELSE Outcome("True", x.new_state,
                     History_push(h, state_copy(x.new_state), x.move, HistoryLimit),
                     (IF check_win(x.new_state)
                      THEN <<Event("game_won", [score |-> x.new_state.score])>>
                      ELSE <<>>)
                     \o <<Event("move_made",
                                [from |-> from_pile, to |-> to_pile,
                                 count |-> count, score |-> x.new_state.score])>>,
                     <<x.new_state>>)

\* move(): can_move is asked about a Move whose cards list is empty
Engine_move(st, h, from_pile, to_pile, count) ==
    IF st = None THEN Rejected(st, h)
    ELSE IF ~can_move(st, Move(from_pile, to_pile, <<>>, -1, <<>>, 0))
    THEN Rejected(st, h)
    ELSE LET x == _execute_move(st, from_pile, to_pile, count)
         IN  IF x.raised THEN Rejected(st, h)
             ELSE Outcome("True", x.new_state,
                     History_push(h, state_copy(x.new_state), x.move, HistoryLimit),
                     (IF check_win(x.new_state)
                      THEN <<Event("game_won", [score |-> x.new_state.score])>>
                      ELSE <<>>)
                     \o <<Event("move_made",
                                [from |-> from_pile, to |-> to_pile,
                                 count |-> count, score |-> x.new_state.score])>>,
                     <<x.new_state>>)

\* check_win(): a read-only delegation to the rule set
Engine_check_win(st, h) ==
    IF st = None THEN Rejected(st, h)
    ELSE Outcome(IF check_win(st) THEN "True" ELSE "False", st, h, <<>>, <<>>)

\* get_hint() answering False, as check_win does, when there is no game
Engine_get_hint_false(st, h) ==
    IF st = None THEN Outcome("False", st, h, <<>>, <<>>)
    ELSE LET r == get_hint(st)
         IN  Outcome(IF r.raised # "" THEN r.raised
                     ELSE IF r.hint = None THEN "None" ELSE "Move",
                     st, h, <<>>, <<>>)

\* get_hint(): None without a game, else what the rule set's get_hint
\* comes to
Engine_get_hint(st, h) ==
    IF st = None THEN Outcome("None", st, h, <<>>, <<>>)
    ELSE LET r == get_hint(st)
         IN  Outcome(IF r.raised # "" THEN r.raised
                     ELSE IF r.hint = None THEN "None" ELSE "Move",
                     st, h, <<>>, <<>>)

Engine_undo(st, h) ==
    IF st = None \/ ~can_undo(h) THEN Rejected(st, h)
    ELSE LET u == History_undo(h)
         IN  IF u.result = None THEN Outcome("False", st, u.h, <<>>, <<>>)
             ELSE Outcome("True", u.result, u.h,
                          <<Event("undo", [can_undo |-> can_undo(u.h),
                                           can_redo |-> can_redo(u.h)])>>,
                          <<u.result>>)

\* redo that moves the cursor and forgets to assign the state it was given
Engine_redo_keeps_state(st, h) ==
    IF st = None \/ ~can_redo(h) THEN Rejected(st, h)
    ELSE LET u == History_redo(h)
         IN  Outcome("True", st, u.h,
                     <<Event("redo", [can_undo |-> can_undo(u.h),
                                      can_redo |-> can_redo(u.h)])>>, <<st>>)

Engine_redo(st, h) ==
    IF st = None \/ ~can_redo(h) THEN Rejected(st, h)
    ELSE LET u == History_redo(h)
         IN  IF u.result = None THEN Outcome("False", st, u.h, <<>>, <<>>)
             ELSE Outcome("True", u.result, u.h,
                          <<Event("redo", [can_undo |-> can_undo(u.h),
                                           can_redo |-> can_redo(u.h)])>>,
                          <<u.result>>)


(***************************************************************************)
(* Object identity.  GameState and Pile are mutable Python objects, Card is *)
(* a frozen value.  A heap holds the GameState objects (heap.s) and the    *)
(* Pile objects (heap.p); an object is named by its index, a GameState     *)
(* object holds the indices of its piles, and a history entry holds the    *)
(* index of its GameState.  The operations below are model/state.py and    *)
(* model/history.py again, on references instead of values.                *)
(***************************************************************************)
RECURSIVE SetToSeq(_)
SetToSeq(S) ==
    IF S = {} THEN <<>>
    ELSE LET x == CHOOSE y \in S : TRUE
         IN  <<x>> \o SetToSeq(S \ {x})

IndexOf(sq, x) == CHOOSE i \in 1..Len(sq) : sq[i] = x

\* the value of the GameState object sid: its piles read through the heap
Deref(heap, sid) ==
    LET so == heap.s[sid]
    IN  GameState([n \in DOMAIN so.piles |-> heap.p[so.piles[n]]],
                  heap.p[so.stock], heap.p[so.waste], so.score, so.moves_count)

\* GameState(...) built by the caller: new Pile objects, new GameState object
Ref_GameState(heap, st) ==
    LET names == SetToSeq(DOMAIN st.piles)
        base  == Len(heap.p)
    IN  [heap |-> [s |-> Append(heap.s,
                          [piles |-> [n \in DOMAIN st.piles |->
                                         base + 2 + IndexOf(names, n)],
                           stock |-> base + 1, waste |-> base + 2,
                           score |-> st.score, moves_count |-> st.moves_count]),
                   p |-> heap.p \o <<st.stock, st.waste>>
                         \o [k \in 1..Len(names) |-> st.piles[names[k]]]],
         id   |-> Len(heap.s) + 1]

\* a copy that shares the Pile objects of the original
Ref_GameState_copy_shallow(heap, sid) ==
    [heap |-> [heap EXCEPT !.s = Append(@, heap.s[sid])],
     id   |-> Len(heap.s) + 1]

\* GameState.copy: a new GameState whose piles are new Pile objects
Ref_GameState_copy(heap, sid) ==
    LET so    == heap.s[sid]
        names == SetToSeq(DOMAIN so.piles)
        base  == Len(heap.p)
    IN  [heap |-> [s |-> Append(heap.s,
                          [piles |-> [n \in DOMAIN so.piles |->
                                         base + 2 + IndexOf(names, n)],
                           stock |-> base + 1, waste |-> base + 2,
                           score |-> so.score, moves_count |-> so.moves_count]),
                   p |-> heap.p
                         \o <<pile_copy(heap.p[so.stock]), pile_copy(heap.p[so.waste])>>
                         \o [k \in 1..Len(names) |->
                                pile_copy(heap.p[so.piles[names[k]]])]],
         id   |-> Len(heap.s) + 1]

\* push that evicts the oldest entry and leaves the cursor where it was
Ref_push_cursor_kept(heap, h, sid, mv, limit) ==
    LET c        == Ref_GameState_copy(heap, sid)
        kept     == SubSeq(h.entries, 1, h.current + 1)
        appended == Append(kept, HistoryEntry(c.id, mv))
        cur      == h.current + 1
    IN  [heap   |-> c.heap,
         h      |-> IF Len(appended) > limit
                    THEN [entries |-> Tail(appended), current |-> cur]
                    ELSE [entries |-> appended, current |-> cur],
         result |-> 0]

\* push that never evicts
Ref_push_unbounded(heap, h, sid, mv, limit) ==
    LET c        == Ref_GameState_copy(heap, sid)
        kept     == SubSeq(h.entries, 1, h.current + 1)
        appended == Append(kept, HistoryEntry(c.id, mv))
    IN  [heap   |-> c.heap,
         h      |-> [entries |-> appended, current |-> h.current + 1],
         result |-> 0]

\* the operations return the new heap, the new history and the index of the
\* returned GameState (0 for None)
Ref_push(heap, h, sid, mv, limit) ==
    LET c        == Ref_GameState_copy(heap, sid)
        kept     == SubSeq(h.entries, 1, h.current + 1)
        appended == Append(kept, HistoryEntry(c.id, mv))
        cur      == h.current + 1
    IN  [heap   |-> c.heap,
         h      |-> IF Len(appended) > limit
                    THEN [entries |-> Tail(appended), current |-> Max(-1, cur - 1)]
                    ELSE [entries |-> appended, current |-> cur],
         result |-> 0]

Ref_get_current_state(heap, h) ==
    IF h.current < 0 THEN [heap |-> heap, h |-> h, result |-> 0]
    ELSE LET c == Ref_GameState_copy(heap, h.entries[h.current + 1].state)
         IN  [heap |-> c.heap, h |-> h, result |-> c.id]

Ref_undo(heap, h) ==
    IF ~can_undo(h) THEN [heap |-> heap, h |-> h, result |-> 0]
    ELSE Ref_get_current_state(heap, [h EXCEPT !.current = h.current - 1])

Ref_redo(heap, h) ==
    IF ~can_redo(h) THEN [heap |-> heap, h |-> h, result |-> 0]
    ELSE Ref_get_current_state(heap, [h EXCEPT !.current = h.current + 1])

Ref_go_to(heap, h, index) ==
    IF 0 <= index /\ index < Len(h.entries)
    THEN Ref_get_current_state(heap, [h EXCEPT !.current = index])
    ELSE [heap |-> heap, h |-> h, result |-> 0]

\* clear: the entry list is emptied, the cursor goes back to -1
Ref_clear(heap, h) ==
    [heap |-> heap, h |-> [entries |-> <<>>, current |-> -1], result |-> 0]

\* to_dict: the list comprehension calls entry.state.to_dict() for the first
\* entry, and GameState has no to_dict (nor has Move): AttributeError.  Only
\* an empty history is exported.
Ref_to_dict(heap, h, limit) ==
    IF h.entries = <<>>
    THEN [raised |-> "", entries |-> <<>>, current |-> h.current, limit |-> limit]
    ELSE [raised |-> "AttributeError", entries |-> <<>>, current |-> -1,
          limit |-> 0]

(***************************************************************************)
(* The engine on the heap: model/engine.py again, on GameState and Pile    *)
(* objects instead of values, with the HistoryManager of the heap.  Every  *)
(* call returns the new heap, the new history, the object self._state      *)
(* names after the call and the returned value.                            *)
(***************************************************************************)
EngineCalls == {"new_game", "draw", "move", "undo", "redo"}

\* state.get_pile(name) as a Pile object, 0 for None
Ref_get_pile(heap, sid, name) ==
    LET so == heap.s[sid]
    IN  IF name = "stock" THEN so.stock
        ELSE IF name = "waste" THEN so.waste
        ELSE IF name \in DOMAIN so.piles THEN so.piles[name]
        ELSE 0

RefOutcome(heap, h, sid, r) == [heap |-> heap, h |-> h, state |-> sid, ret |-> r]

\* new_game: a new GameState of new piles, then history.push(self._state.copy())
RefEngine_new_game(heap, h, seed) ==
    LET deck        == _create_shuffled_deck(seed)
        dealt_piles == deal(deck)
        dealt_count == SumLen(dealt_piles, DOMAIN dealt_piles)
        made        == Ref_GameState(heap,
                          GameState(dealt_piles, SubSeq(deck, dealt_count + 1, 52),
                                    <<>>, 0, 0))
        c           == Ref_GameState_copy(made.heap, made.id)
        p           == Ref_push(c.heap, History_clear(h), c.id, None, HistoryLimit)
    IN  RefOutcome(p.heap, p.h, made.id, "None")

\* _recycle_stock: new_state is mutated in place, its copy is pushed
Ref_recycle_stock(heap, self_st, new_state, h, three) ==
    LET so == heap.s[new_state]
    IN  IF is_empty(heap.p[so.waste]) THEN [ok |-> FALSE, heap |-> heap, h |-> h]
        ELSE LET t     == take(heap.p[so.waste], Len(heap.p[so.waste]))
                 cards == [i \in 1..Len(t.taken) |-> make_face_down(t.taken[i])]
                 h1    == [heap EXCEPT !.p[so.waste] = t.rest]
                 h2    == [h1 EXCEPT !.p[so.stock] = add(h1.p[so.stock], cards)]
                 mv    == Move("waste", "stock", cards, 0,
                               [i \in 1..Len(cards) |-> <<"waste", i - 1>>],
                               score_recycle(three))
                 c     == Ref_GameState_copy(h2, new_state)
                 p     == Ref_push(c.heap, h, c.id, mv, HistoryLimit)
             IN  [ok |-> TRUE, heap |-> p.heap, h |-> p.h]

\* the normal draw that takes the cards from self._state itself
Ref_draw_cards_in_place(heap, self_st, new_state, h, three) ==
    LET so    == heap.s[self_st]
        actual_count == Min(get_draw_count(three), Len(heap.p[so.stock]))
        t     == take(heap.p[so.stock], actual_count)
        cards == [i \in 1..Len(t.taken) |-> make_face_up(t.taken[i])]
        h1    == [heap EXCEPT !.p[so.stock] = t.rest]
        h2    == [h1 EXCEPT !.p[so.waste] = add(h1.p[so.waste], cards),
                            !.s[self_st].moves_count = @ + 1]
        mv    == Move("stock", "waste", cards, Len(h2.p[so.stock]), <<>>,
                      score_draw(Deref(heap, self_st), cards))
        c     == Ref_GameState_copy(h2, self_st)
        p     == Ref_push(c.heap, h, c.id, mv, HistoryLimit)
    IN  RefOutcome(p.heap, p.h, self_st, "True")

\* the normal draw: new_state, the copy draw() made, is mutated in place,
\* becomes self._state, and its copy is pushed
Ref_draw_cards(heap, self_st, new_state, h, three) ==
    LET so    == heap.s[new_state]
        actual_count == Min(get_draw_count(three), Len(heap.p[so.stock]))
        t     == take(heap.p[so.stock], actual_count)
        cards == [i \in 1..Len(t.taken) |-> make_face_up(t.taken[i])]
        h1    == [heap EXCEPT !.p[so.stock] = t.rest]
        h2    == [h1 EXCEPT !.p[so.waste] = add(h1.p[so.waste], cards),
                            !.s[new_state].moves_count = @ + 1]
        mv    == Move("stock", "waste", cards, Len(h2.p[so.stock]), <<>>,
                      score_draw(Deref(heap, self_st), cards))
        c     == Ref_GameState_copy(h2, new_state)
        p     == Ref_push(c.heap, h, c.id, mv, HistoryLimit)
    IN  RefOutcome(p.heap, p.h, new_state, "True")

RECURSIVE RefEngine_draw(_, _, _, _)
RefEngine_draw(heap, self_st, h, three) ==
    IF self_st = 0 THEN RefOutcome(heap, h, self_st, "False")
    ELSE IF ~can_draw(Deref(heap, self_st)) THEN RefOutcome(heap, h, self_st, "False")
    ELSE LET c         == Ref_GameState_copy(heap, self_st)
             new_state == c.id
         IN  IF is_empty(c.heap.p[c.heap.s[new_state].stock])
             THEN LET r == Ref_recycle_stock(c.heap, self_st, new_state, h, three)
                  IN  IF ~r.ok THEN RefOutcome(r.heap, h, self_st, "False")
                      ELSE RefEngine_draw(r.heap, new_state, r.h, three)
             ELSE Ref_draw_cards(c.heap, self_st, new_state, h, three)

\* _execute_move on the copy new_state; raised stands for the ValueError
Ref_execute_move(heap, self_st, from_pile, to_pile, count) ==
    LET c         == Ref_GameState_copy(heap, self_st)
        new_state == c.id
        source    == Ref_get_pile(c.heap, new_state, from_pile)
        target    == Ref_get_pile(c.heap, new_state, to_pile)
    IN  IF source = 0 \/ target = 0 THEN [raised |-> TRUE, heap |-> c.heap]
        ELSE IF is_empty(c.heap.p[source]) \/ is_empty(c.heap.p[target])
        THEN [raised |-> TRUE, heap |-> c.heap]
        ELSE LET from_index == Len(c.heap.p[source]) - count
                 t     == take(c.heap.p[source], count)
                 h1    == [c.heap EXCEPT !.p[source] = t.rest]
                 h2    == [h1 EXCEPT !.p[target] = add(h1.p[target], t.taken)]
                 score_delta == calculate_score(Deref(heap, self_st),
                                   Move(from_pile, to_pile, t.taken, from_index,
                                        <<>>, 0))
                 h3    == [h2 EXCEPT !.s[new_state].score = @ + score_delta,
                                     !.s[new_state].moves_count = @ + 1]
             IN  [raised |-> FALSE, heap |-> h3, new_state |-> new_state,
                  move |-> Move(from_pile, to_pile, t.taken, from_index, <<>>,
                                score_delta)]

RefEngine_move(heap, self_st, h, from_pile, to_pile, count) ==
    IF self_st = 0 THEN RefOutcome(heap, h, self_st, "False")
    ELSE IF ~can_move(Deref(heap, self_st),
                      Move(from_pile, to_pile, <<>>, -1, <<>>, 0))
    THEN RefOutcome(heap, h, self_st, "False")
    ELSE LET x == Ref_execute_move(heap, self_st, from_pile, to_pile, count)
         IN  IF x.raised THEN RefOutcome(x.heap, h, self_st, "False")
             ELSE LET c == Ref_GameState_copy(x.heap, x.new_state)
                      p == Ref_push(c.heap, h, c.id, x.move, HistoryLimit)
                  IN  RefOutcome(p.heap, p.h, x.new_state, "True")

RefEngine_undo(heap, self_st, h) ==
    IF self_st = 0 \/ ~can_undo(h) THEN RefOutcome(heap, h, self_st, "False")
    ELSE LET u == Ref_undo(heap, h)
         IN  IF u.result = 0 THEN RefOutcome(u.heap, u.h, self_st, "False")
             ELSE RefOutcome(u.heap, u.h, u.result, "True")

RefEngine_redo(heap, self_st, h) ==
    IF self_st = 0 \/ ~can_redo(h) THEN RefOutcome(heap, h, self_st, "False")
    ELSE LET u == Ref_redo(heap, h)
         IN  IF u.result = 0 THEN RefOutcome(u.heap, u.h, self_st, "False")
             ELSE RefOutcome(u.heap, u.h, u.result, "True")

(***************************************************************************)
(* The engine as a state machine                                           *)
(***************************************************************************)
VARIABLES
    draw_three,   \* KlondikeRules.draw_three, fixed at construction
    state,        \* SolitaireEngine._state (None before the first new_game)
    entries,      \* HistoryManager._entries
    current,      \* HistoryManager._current
    lastOp,       \* name of the last engine method called
    ret,          \* what that call returned: "True", "False", "None",
                  \* "Move", or the name of the exception it raised
    events,       \* the events that call notified, in order
    line,         \* observer: the states the engine has held since the deal,
                  \* in the order the calls produced them
    pos,          \* observer: how many of them are not undone
    tour,         \* observer: progress of "undo until it fails, then redo
                  \* until it fails" since the last state-producing call
    unknown,      \* observer: the pile names passed to the last call that
                  \* name no pile of the state the call found
    before,       \* observer: the history length and cursor that a new_game
                  \* call found; forgotten at the next call
    heap,         \* the GameState and Pile objects of the stand-alone history
    r_entries,    \* HistoryManager._entries, each naming its GameState object
    r_current,    \* HistoryManager._current
    r_limit,      \* HistoryManager._limit
    origin,       \* per GameState object: who made it ("caller", "stored",
                  \* or the history method that returned it)
    pushed,       \* the objects the caller has passed to push
    mutated,      \* the objects the caller has mutated
    callerOp,     \* name of the last call of the caller
    r_result,     \* the GameState object that call returned, 0 for None
    q_state,      \* the GameState a caller passes to the rule set
    q_call,       \* the rule-set method it calls, with the other arguments
    q_ret,        \* "pending" until the call has returned, then its result
    q_moves,      \* the Moves the call returned: the list of
                  \* get_available_moves, the one Move of get_hint if any
    listeners,    \* SolitaireEngine._listeners: the callbacks, in the order
                  \* of their registration
    kinds,        \* what each callback does when it is called
    heard,        \* observer: the callbacks the last _notify called, in order
    emitted,      \* observer: the event of the last _notify, and the
                  \* listener list it found
    p_pile,       \* a Pile used on its own: its cards, bottom first
    p_ret,        \* what the last call on it returned
    p_last,       \* observer: that call, its argument and the cards the
                  \* pile held when it was made
    b_games,      \* GodotBridgeHandler.games: per client address the engine
                  \* object of its session, 0 for no entry
    b_engines,    \* the SolitaireEngine objects: _state, the HistoryManager
                  \* object they hold, the draw_three of their rules
    b_histories,  \* the HistoryManager objects: _entries and _current
    b_last,       \* observer: the client and the path of the last request
    exported,     \* what the caller's last call came to if it was to_dict
    self_state,   \* SolitaireEngine._state of an engine whose objects live
                  \* on the heap: the GameState object it names, 0 for None
    self_ret      \* what the last call on that engine returned

engineVars == <<draw_three, state, entries, current, lastOp, ret, events,
                line, pos, tour, unknown, before>>

refVars == <<heap, r_entries, r_current, r_limit, origin, pushed, mutated,
             callerOp, r_result>>

rulesVars == <<q_state, q_call, q_ret, q_moves>>

notifyVars == <<listeners, kinds, heard, emitted>>

pileVars == <<p_pile, p_ret, p_last>>

bridgeVars == <<b_games, b_engines, b_histories, b_last>>

objVars == <<self_state, self_ret>>

moreVars == <<notifyVars, pileVars, bridgeVars, exported, objVars>>

\* what the event channel leaves alone
outsideNotify == <<engineVars, refVars, rulesVars, pileVars, bridgeVars, exported,
                   objVars>>

\* what a Pile used on its own leaves alone
outsidePile == <<engineVars, refVars, rulesVars, notifyVars, bridgeVars, exported,
                   objVars>>

\* what the HTTP bridge leaves alone
outsideBridge == <<engineVars, refVars, rulesVars, notifyVars, pileVars, exported,
                   objVars>>

vars == <<engineVars, refVars, rulesVars, moreVars>>

Seeds == 0..MaxSeed

\* pile names offered to move() as source and as destination: piles of
\* every type and names that name no pile
MoveSources == {"stock", "waste", "tableau_0", "foundation_HEARTS", UnknownPile}

MoveTargets == {"waste", "tableau_1", "foundation_HEARTS", UnknownTableau}

history == [entries |-> entries, current |-> current]

\* the observer's record of a call: a call that produced states cuts the
\* undone ones off and appends its own; undo and redo step along the line
Observe(name, o) ==
    IF name \in {"undo", "redo"}
    THEN /\ line' = line
         /\ pos' = IF o.ret # "True" THEN pos
                   ELSE IF name = "undo" THEN pos - 1 ELSE pos + 1
    ELSE IF name = "new_game"
    THEN /\ line' = o.trail
         /\ pos' = 1
    ELSE IF o.trail = <<>>
    THEN UNCHANGED <<line, pos>>
    ELSE /\ line' = SubSeq(line, 1, pos) \o o.trail
         /\ pos' = pos + Len(o.trail)

\* "top": a state-producing call was the last to change the state;
\* "down": only successful undo calls since; "bottom": then undo failed;
\* "up": only successful redo calls since; "done": then redo failed
Tour(name, o) ==
    IF name = "undo"
    THEN IF o.ret = "True"
         THEN (IF tour \in {"top", "down"} THEN "down" ELSE "off")
         ELSE (IF tour = "down" THEN "bottom" ELSE "off")
    ELSE IF name = "redo"
    THEN IF o.ret = "True"
         THEN (IF tour \in {"bottom", "up"} THEN "up" ELSE "off")
         ELSE (IF tour = "up" THEN "done" ELSE "off")
    ELSE IF o.trail = <<>> THEN tour
    ELSE "top"

Commit(name, o, names) ==
    /\ state' = o.state
    /\ entries' = o.h.entries
    /\ current' = o.h.current
    /\ lastOp' = name
    /\ ret' = o.ret
    /\ events' = o.events
    /\ Observe(name, o)
    /\ tour' = Tour(name, o)
    /\ unknown' = IF state = None THEN names
                  ELSE {n \in names : ~has_pile(state, n)}
    /\ before' = IF name = "new_game"
                 THEN [len |-> Len(entries), cur |-> current]
                 ELSE [len |-> 0, cur |-> -1]
    /\ UNCHANGED draw_three
    /\ UNCHANGED refVars
    /\ UNCHANGED rulesVars
    /\ UNCHANGED moreVars

NoCall == [op |-> "none", pile |-> "", to |-> "", count |-> 0, cards |-> <<>>]

\* no caller of the rule set
RulesIdle ==
    /\ q_state = None
    /\ q_call = NoCall
    /\ q_ret = "pending"
    /\ q_moves = <<>>

\* no stand-alone history in use
RefIdle ==
    /\ heap = [s |-> <<>>, p |-> <<>>]
    /\ r_entries = <<>>
    /\ r_current = -1
    /\ r_limit = 0
    /\ origin = <<>>
    /\ pushed = {}
    /\ mutated = {}
    /\ callerOp = "none"
    /\ r_result = 0

\* an engine nobody listens to
NotifyIdle ==
    /\ listeners = <<>>
    /\ kinds = <<>>
    /\ heard = <<>>
    /\ emitted = [event |-> "none", found |-> <<>>]

\* no Pile in use outside a GameState
PileIdle ==
    /\ p_pile = <<>>
    /\ p_ret = <<>>
    /\ p_last = [op |-> "none", n |-> 0, before |-> <<>>]

\* clients of the HTTP bridge, by address
Sessions == {"10.0.0.1", "10.0.0.2"}

\* the bridge has served no request
BridgeIdle ==
    /\ b_games = [s \in Sessions |-> 0]
    /\ b_engines = <<>>
    /\ b_histories = <<>>
    /\ b_last = [session |-> "", path |-> ""]

\* to_dict was not called
NoExport == [raised |-> "", entries |-> <<>>, current |-> -1, limit |-> 0]

\* no engine on the heap
ObjIdle == self_state = 0 /\ self_ret = "None"

MoreIdle == NotifyIdle /\ PileIdle /\ BridgeIdle /\ exported = NoExport /\ ObjIdle

Init ==
    /\ RefIdle
    /\ RulesIdle
    /\ MoreIdle
    /\ draw_three \in BOOLEAN
    /\ state = None
    /\ entries = <<>>
    /\ current = -1
    /\ lastOp = "__init__"
    /\ ret = "None"
    /\ events = <<>>
    /\ line = <<>>
    /\ pos = 0
    /\ tour = "off"
    /\ unknown = {}
    /\ before = [len |-> 0, cur |-> -1]

new_game ==
    \E seed \in Seeds : Commit("new_game", Engine_new_game(history, seed), {})

draw ==
    LET o == Engine_draw(state, history, draw_three)
    IN  /\ Len(o.h.entries) <= MaxHist
        /\ Commit("draw", o, {})

move ==
    \E from_pile \in MoveSources, to_pile \in MoveTargets, count \in 0..MaxCount :
        LET o == Engine_move(state, history, from_pile, to_pile, count)
        IN  /\ Len(o.h.entries) <= MaxHist
            /\ Commit("move", o, {from_pile, to_pile})

undo ==
    LET o == Engine_undo(state, history)
    IN  /\ Len(o.h.entries) - (o.h.current + 1) <= MaxRedo
        /\ Commit("undo", o, {})

redo == Commit("redo", Engine_redo(state, history), {})

engine_check_win == Commit("check_win", Engine_check_win(state, history), {})

engine_get_hint == Commit("get_hint", Engine_get_hint(state, history), {})

Next ==
    \/ new_game
    \/ draw
    \/ move
    \/ undo
    \/ redo
    \/ engine_check_win
    \/ engine_get_hint

Spec == Init /\ [][Next]_vars


(***************************************************************************)
(* A HistoryManager used on its own: a caller builds GameState objects,    *)
(* passes them to push, receives objects from undo / redo /                *)
(* get_current_state / go_to, and mutates the objects it holds.            *)
(***************************************************************************)
\* HistoryManager.__init__: limit defaults to 100
DefaultLimit == 100

Limits == {SmallLimit, DefaultLimit}

\* the GameState values the caller builds
CallerStates ==
    { GameState([tableau_0 |-> <<Card("SPADES", KING, TRUE)>>],
                <<Card("DIAMONDS", 7, FALSE)>>,
                <<Card("HEARTS", ACE, TRUE)>>, 0, 1) }

r_history == [entries |-> r_entries, current |-> r_current]

\* the objects the caller holds a reference to
Held == {i \in 1..Len(origin) : origin[i] # "stored"}

EngineIdle ==
    /\ draw_three = FALSE
    /\ state = None
    /\ entries = <<>>
    /\ current = -1
    /\ lastOp = "__init__"
    /\ ret = "None"
    /\ events = <<>>
    /\ line = <<>>
    /\ pos = 0
    /\ tour = "off"
    /\ unknown = {}
    /\ before = [len |-> 0, cur |-> -1]

InitAlias ==
    /\ EngineIdle
    /\ RulesIdle
    /\ MoreIdle
    /\ heap = [s |-> <<>>, p |-> <<>>]
    /\ r_entries = <<>>
    /\ r_current = -1
    /\ r_limit \in Limits
    /\ origin = <<>>
    /\ pushed = {}
    /\ mutated = {}
    /\ callerOp = "__init__"
    /\ r_result = 0

\* the effect of a history call: objects allocated by the call belong to the
\* history ("stored") except the returned one
AfterCall(name, r) ==
    /\ heap' = r.heap
    /\ r_entries' = r.h.entries
    /\ r_current' = r.h.current
    /\ origin' = origin \o [k \in 1..(Len(r.heap.s) - Len(heap.s)) |->
                               IF Len(heap.s) + k = r.result THEN name
                               ELSE "stored"]
    /\ callerOp' = name
    /\ r_result' = r.result
    /\ exported' = NoExport
    /\ UNCHANGED <<r_limit, mutated, engineVars, rulesVars, notifyVars, pileVars,
                   bridgeVars, objVars>>

caller_new ==
    /\ Len(heap.s) < MaxObjects
    /\ \E st \in CallerStates :
          /\ heap' = Ref_GameState(heap, st).heap
          /\ origin' = Append(origin, "caller")
    /\ callerOp' = "new"
    /\ r_result' = 0
    /\ exported' = NoExport
    /\ UNCHANGED <<r_entries, r_current, r_limit, pushed, mutated, engineVars,
                   rulesVars, notifyVars, pileVars, bridgeVars, objVars>>

caller_push ==
    /\ Len(heap.s) < MaxObjects
    /\ \E sid \in Held :
          /\ AfterCall("push", Ref_push(heap, r_history, sid, None, r_limit))
          /\ pushed' = pushed \cup {sid}

caller_undo ==
    /\ Len(heap.s) < MaxObjects
    /\ AfterCall("undo", Ref_undo(heap, r_history))
    /\ UNCHANGED pushed

caller_redo ==
    /\ Len(heap.s) < MaxObjects
    /\ AfterCall("redo", Ref_redo(heap, r_history))
    /\ UNCHANGED pushed

caller_get_current_state ==
    /\ Len(heap.s) < MaxObjects
    /\ AfterCall("get_current_state", Ref_get_current_state(heap, r_history))
    /\ UNCHANGED pushed

caller_go_to ==
    /\ Len(heap.s) < MaxObjects
    /\ \E index \in -1..Len(r_entries) :
          AfterCall("go_to", Ref_go_to(heap, r_history, index))
    /\ UNCHANGED pushed

\* the caller writes to an object it holds:
\* state.waste.add(state.stock.take(1)); state.score += 1
caller_mutate ==
    /\ \E sid \in Held :
          LET so == heap.s[sid]
              t  == take(heap.p[so.stock], 1)
          IN  /\ heap.p[so.stock] # <<>>
              /\ heap' = [heap EXCEPT
                            !.p[so.stock] = t.rest,
                            !.p[so.waste] = add(heap.p[so.waste], t.taken),
                            !.s[sid].score = @ + 1]
              /\ mutated' = mutated \cup {sid}
    /\ callerOp' = "mutate"
    /\ r_result' = 0
    /\ exported' = NoExport
    /\ UNCHANGED <<r_entries, r_current, r_limit, origin, pushed, engineVars,
                   rulesVars, notifyVars, pileVars, bridgeVars, objVars>>

caller_clear ==
    /\ AfterCall("clear", Ref_clear(heap, r_history))
    /\ UNCHANGED pushed

caller_to_dict ==
    /\ exported' = Ref_to_dict(heap, r_history, r_limit)
    /\ callerOp' = "to_dict"
    /\ r_result' = 0
    /\ UNCHANGED <<heap, r_entries, r_current, r_limit, origin, pushed, mutated,
                   engineVars, rulesVars, notifyVars, pileVars, bridgeVars,
                   objVars>>

NextAlias ==
    \/ caller_to_dict
    \/ caller_clear
    \/ caller_new
    \/ caller_push
    \/ caller_undo
    \/ caller_redo
    \/ caller_get_current_state
    \/ caller_go_to
    \/ caller_mutate

SpecAlias == InitAlias /\ [][NextAlias]_vars

(***************************************************************************)
(* Properties                                                              *)
(***************************************************************************)
active == state # None

\* every card a state holds, pile after pile
AllCards(st) ==
    st.stock \o st.waste
    \o st.piles["tableau_0"] \o st.piles["tableau_1"] \o st.piles["tableau_2"]
    \o st.piles["tableau_3"] \o st.piles["tableau_4"] \o st.piles["tableau_5"]
    \o st.piles["tableau_6"]
    \o st.piles["foundation_HEARTS"] \o st.piles["foundation_DIAMONDS"]
    \o st.piles["foundation_CLUBS"] \o st.piles["foundation_SPADES"]

Faces(cards) == {<<suit(cards[i]), rank(cards[i])>> : i \in 1..Len(cards)}

FaceUpAll(cards) == [i \in 1..Len(cards) |-> make_face_up(cards[i])]

FaceDownAll(cards) == [i \in 1..Len(cards) |-> make_face_down(cards[i])]

EventNames(evs) == [i \in 1..Len(evs) |-> evs[i].event]

\* C1: in every reachable state of an active game the stock, the waste, the
\* seven tableau columns and the four foundations together hold 52 cards,
\* and these are the 52 distinct (suit, rank) cards: none lost, none doubled.
C1_CardConservation ==
    active =>
        /\ Len(AllCards(state)) = 52
        /\ Faces(AllCards(state)) = SuitNames \X Rank

\* a draw that recycled has moved every card through waste -> stock -> waste
C1_Witness ==
    /\ active
    /\ lastOp = "draw"
    /\ EventNames(events) = <<"recycle", "draw">>
    /\ Len(state.stock) + Len(state.waste) = 24

\* C2: a call that returns False leaves _state, the history entries and the
\* cursor as they were and notifies no event.
C2_RejectedChangesNothing ==
    [][ret' = "False" =>
          /\ state' = state
          /\ entries' = entries
          /\ current' = current
          /\ events' = <<>>]_vars

\* a move was rejected in an active game whose history has a redo branch
C2_Witness ==
    /\ active
    /\ lastOp = "move"
    /\ ret = "False"
    /\ current > 0
    /\ current < Len(entries) - 1

\* the Move that carries the top n cards of from_pile to to_pile
Candidate(st, from_pile, to_pile, n) ==
    IF has_pile(st, from_pile)
    THEN Move(from_pile, to_pile, peek(get_pile(st, from_pile), n),
              Len(get_pile(st, from_pile)) - n, <<>>, 0)
    ELSE Move(from_pile, to_pile, <<>>, -1, <<>>, 0)

AllNames == PileNames \cup {UnknownTableau, UnknownPile}

\* C3: in an active game move(from, to, n) returns True exactly when
\* can_move accepts the Move that carries the top n cards of from to to.
C3_MoveIffCanMove ==
    active =>
        \A from_pile \in AllNames, to_pile \in AllNames, n \in 1..13 :
            (Engine_move(state, history, from_pile, to_pile, n).ret = "True")
            <=> can_move(state, Candidate(state, from_pile, to_pile, n))

C7_AceToFoundation ==
    active =>
        \A t \in TableauNames, f \in FoundationNames :
            LET column == get_pile(state, t)
                o      == Engine_move(state, history, t, f, 1)
            IN  ( /\ column # <<>>
                  /\ rank(top(column)) = ACE
                  /\ face_up(top(column))
                  /\ get_pile(state, f) = <<>> )
                =>
                ( /\ o.ret = "True"
                  /\ get_pile(o.state, f) = <<top(column)>>
                  /\ get_pile(o.state, t) = SubSeq(column, 1, Len(column) - 1)
                  /\ o.state.score = state.score + 10
                  /\ o.state.moves_count = state.moves_count + 1 )

\* C8: draw() with an empty stock and k >= 1 waste cards returns True; the k
\* waste cards go face-down into the stock, then draw_count of them come
\* back face-up into the waste; the move counter grows by exactly 1.
C8_RecycleThenDraw ==
    [][(lastOp' = "draw" /\ active /\ state.stock = <<>> /\ state.waste # <<>>) =>
          LET k == Len(state.waste)
              d == get_draw_count(draw_three)
          IN  /\ ret' = "True"
              /\ state'.stock = FaceDownAll(SubSeq(state.waste, 1, k - d))
              /\ state'.waste = FaceUpAll(SubSeq(state.waste, k - d + 1, k))
              /\ Len(state'.waste) = d
              /\ state'.moves_count = state.moves_count + 1]_vars

\* a draw has just recycled a waste of 24 cards
C8_Witness ==
    /\ active
    /\ lastOp = "draw"
    /\ ret = "True"
    /\ EventNames(events) = <<"recycle", "draw">>
    /\ events[1].data.count = 24
    /\ Len(state.waste) = get_draw_count(draw_three)

\* C9: a draw() that recycles lowers the score by the recycle penalty
\* (10 when drawing one card, 20 when drawing three).
C9_RecyclePenalty ==
    [][(lastOp' = "draw" /\ active /\ state.stock = <<>> /\ state.waste # <<>>) =>
          state'.score = state.score - (IF draw_three THEN 20 ELSE 10)]_vars

\* C10: draw() with a non-empty stock returns True, moves the top draw_count
\* stock cards, in order and face-up, onto the waste, adds 1 to the move
\* counter, pushes one history entry, notifies `draw` and leaves the
\* tableau, the foundations and the score alone.
C10_DrawFromStock ==
    [][(lastOp' = "draw" /\ active /\ state.stock # <<>>) =>
          LET d == get_draw_count(draw_three)
              n == Len(state.stock)
          IN  /\ ret' = "True"
              /\ state'.stock = SubSeq(state.stock, 1, n - d)
              /\ state'.waste =
                     state.waste \o FaceUpAll(SubSeq(state.stock, n - d + 1, n))
              /\ Len(state'.waste) = Len(state.waste) + d
              /\ state'.moves_count = state.moves_count + 1
              /\ Len(entries') = current + 2
              /\ SubSeq(entries', 1, current + 1) = SubSeq(entries, 1, current + 1)
              /\ entries'[current + 2].state = state'
              /\ current' = current + 1
              /\ EventNames(events') = <<"draw">>
              /\ events'[1].data.count = d
              /\ state'.piles = state.piles
              /\ state'.score = state.score]_vars

\* a draw from a stock that a recycle had refilled, after an undo
C10_Witness ==
    /\ active
    /\ lastOp = "draw"
    /\ ret = "True"
    /\ EventNames(events) = <<"draw">>
    /\ state.waste # <<>>
    /\ state.stock # <<>>
    /\ state.moves_count >= 2

\* C13: after new_game, from an engine that held no game or from a game with
\* any history and cursor, the game is active, the history holds exactly one
\* entry, the deal with no Move, the cursor is on it, can_undo and can_redo
\* are false, score and move counter are 0 and the call notified exactly one
\* event, game_started.
C13_NewGameResets ==
    [][lastOp' = "new_game" =>
          /\ state' # None
          /\ Len(entries') = 1
          /\ entries'[1].state = state'
          /\ entries'[1].move = None
          /\ current' = 0
          /\ ~can_undo([entries |-> entries', current |-> current'])
          /\ ~can_redo([entries |-> entries', current |-> current'])
          /\ state'.score = 0
          /\ state'.moves_count = 0
          /\ EventNames(events') = <<"game_started">>]_vars

\* new_game was called in a game whose cursor stood inside a longer history
C13_Witness ==
    /\ lastOp = "new_game"
    /\ before.len >= 3
    /\ before.cur >= 1
    /\ before.cur < before.len - 1
    /\ Len(entries) = 1

\* C14: right after new_game tableau_i (i = 0..6) holds i + 1 cards of which
\* only the top one is face-up, the four foundations and the waste are empty
\* and the stock holds the other 24 cards, all face-down.
C14_InitialDeal ==
    lastOp = "new_game" =>
        /\ \A i \in 0..6 :
              LET col == state.piles[Columns[i + 1]]
              IN  /\ Len(col) = i + 1
                  /\ face_up(col[i + 1])
                  /\ \A j \in 1..i : ~face_up(col[j])
        /\ \A f \in FoundationNames : state.piles[f] = <<>>
        /\ state.waste = <<>>
        /\ Len(state.stock) = 24
        /\ \A j \in 1..Len(state.stock) : ~face_up(state.stock[j])
        /\ Len(AllCards(state)) = 52
        /\ Faces(AllCards(state)) = SuitNames \X Rank

\* a shuffled deck was dealt
C14_Witness ==
    /\ lastOp = "new_game"
    /\ events[1].data.seed # 0
    /\ rank(state.piles["tableau_0"][1]) # ACE

\* C17: move() with a source or destination name that names no pile of the
\* current state returns False (it does not raise) and leaves the state,
\* the history entries and the cursor as they were.
C17_UnknownPileRejected ==
    [][(lastOp' = "move" /\ active /\ unknown' # {}) =>
          /\ ret' = "False"
          /\ state' = state
          /\ entries' = entries
          /\ current' = current
          /\ events' = <<>>]_vars

\* a move named an unknown source and an unknown destination in a game with
\* a history
C17_Witness ==
    /\ active
    /\ lastOp = "move"
    /\ unknown = {UnknownPile, UnknownTableau}
    /\ Len(entries) > 1


\* the snapshots the history stores, entry by entry, read through the heap
Stored == [i \in 1..Len(r_entries) |-> Deref(heap, r_entries[i].state)]

Returned == {"undo", "redo", "get_current_state", "go_to"}

\* C6: when the caller mutates a GameState it holds, whether it was returned
\* by undo, redo, get_current_state or go_to or was passed to push earlier,
\* no snapshot stored in a history entry changes.
C6_CopyIsolation ==
    [][callerOp' = "mutate" => Stored' = Stored]_vars

\* the caller has mutated an object it had pushed and an object the history
\* returned, and the history still holds entries
C6_Witness ==
    /\ callerOp = "mutate"
    /\ r_entries # <<>>
    /\ mutated \cap pushed # {}
    /\ \E sid \in mutated : origin[sid] \in Returned

\* C15: HistoryManager.undo returns None exactly when the cursor is at index
\* 0 or the history is empty, redo exactly when the cursor is at the newest
\* entry; a failed call leaves cursor and entries as they were, a successful
\* one moves the cursor by exactly one, keeps the entries and returns a state
\* equal to the one stored at the new cursor position.
C15_UndoRedoBoundaries ==
    [][/\ callerOp' = "undo" =>
            IF r_current = 0 \/ r_entries = <<>>
            THEN /\ r_result' = 0
                 /\ r_current' = r_current
                 /\ r_entries' = r_entries
            ELSE /\ r_result' # 0
                 /\ r_current' = r_current - 1
                 /\ r_entries' = r_entries
                 /\ Stored' = Stored
                 /\ Deref(heap', r_result') = Stored[r_current' + 1]
       /\ callerOp' = "redo" =>
            IF r_current = Len(r_entries) - 1
            THEN /\ r_result' = 0
                 /\ r_current' = r_current
                 /\ r_entries' = r_entries
            ELSE /\ r_result' # 0
                 /\ r_current' = r_current + 1
                 /\ r_entries' = r_entries
                 /\ Stored' = Stored
                 /\ Deref(heap', r_result') = Stored[r_current' + 1]]_vars

\* a redo succeeded, so an undo had succeeded before it
C15_Witness ==
    /\ callerOp = "redo"
    /\ r_result # 0
    /\ r_current = Len(r_entries) - 1
    /\ Len(r_entries) >= 2

\* the GameState objects the history allocated for its entries, oldest first
StoredObjects == {i \in 1..Len(origin) : origin[i] = "stored"}

\* C16: the history never holds more entries than its limit; a push keeps the
\* entries up to the cursor and appends the new one, and when that exceeds
\* the limit exactly the oldest entry goes and the cursor is lowered by one,
\* so that it designates the entry just pushed.
C16_HistoryBounded ==
    [][/\ Len(r_entries) <= r_limit
       /\ Len(r_entries') <= r_limit
       /\ callerOp' = "push" =>
            LET kept == SubSeq(r_entries, 1, r_current + 1)
                n    == Len(r_entries')
            IN  /\ n >= 1
                /\ r_entries'[n].state = Len(heap'.s)
                /\ r_entries'[n].state > Len(heap.s)
                /\ r_current' = n - 1
                /\ IF Len(kept) + 1 > r_limit
                   THEN /\ SubSeq(r_entries', 1, n - 1) = Tail(kept)
                        /\ r_current' = (r_current + 1) - 1
                   ELSE /\ SubSeq(r_entries', 1, n - 1) = kept
                        /\ r_current' = r_current + 1]_vars

\* a push into a full history has evicted the first entry ever stored
C16_Witness ==
    /\ callerOp = "push"
    /\ Len(r_entries) = r_limit
    /\ r_current = r_limit - 1
    /\ StoredObjects # {}
    /\ \A k \in 1..Len(r_entries) :
          r_entries[k].state # CHOOSE i \in StoredObjects :
                                  \A j \in StoredObjects : i <= j

(***************************************************************************)
(* The rule set used on its own: a caller passes a GameState to one of the *)
(* methods of KlondikeRules.  The states passed are the deal and positions *)
(* of a game in progress, each holding the 52 cards once.                  *)
(***************************************************************************)
Up(s, r) == Card(s, r, TRUE)

Down(s, r) == Card(s, r, FALSE)

\* a foundation built from the Ace up to rank k
Built(s, k) == [i \in 1..k |-> Up(s, i)]

\* GameState(piles, stock, waste): found lists the four foundations in the
\* order of Suit, tab the seven columns; the stock holds, face-down and in
\* deck order, every card that lies nowhere else
Layout(found, tab, waste_cards) ==
    LET piles == [n \in TableauNames \cup FoundationNames |->
                     IF n \in FoundationNames
                     THEN found[CHOOSE i \in 1..4 : FoundationName(Suit[i]) = n]
                     ELSE tab[CHOOSE i \in 1..7 : Columns[i] = n]]
        used  == Faces(waste_cards \o found[1] \o found[2] \o found[3] \o found[4]
                       \o tab[1] \o tab[2] \o tab[3] \o tab[4] \o tab[5]
                       \o tab[6] \o tab[7])
    IN  GameState(piles,
                  SelectSeq(_create_shuffled_deck(0),
                            LAMBDA c : <<suit(c), rank(c)>> \notin used),
                  waste_cards, 0, 0)

\* the columns of a game in progress: an empty column, a black 7, a black 5,
\* a run from the King, a red 6, a lone King, a run over face-down cards
MidColumns ==
    << <<>>,
       <<Down("DIAMONDS", 9), Up("SPADES", 7)>>,
       <<Up("CLUBS", 5)>>,
       <<Up("SPADES", KING), Up("HEARTS", 12), Up("CLUBS", 11)>>,
       <<Down("HEARTS", 8), Up("DIAMONDS", 6)>>,
       <<Up("DIAMONDS", KING)>>,
       <<Down("HEARTS", 10), Down("SPADES", 10), Up("DIAMONDS", 8), Up("CLUBS", 7)>> >>

MidFoundations == <<Built("HEARTS", 3), Built("DIAMONDS", 1), <<>>, <<>>>>

NoColumns == << <<>>, <<>>, <<>>, <<>>, <<>>, <<>>, <<>> >>

EndFoundations ==
    <<Built("HEARTS", 9), Built("DIAMONDS", 13), Built("CLUBS", 9),
      Built("SPADES", 9)>>

EndColumns ==
    << <<Up("HEARTS", KING)>>,
       <<Down("SPADES", 11), Up("HEARTS", 10)>>,
       <<Up("HEARTS", 12)>>,
       <<Up("HEARTS", 11)>>,
       <<Up("SPADES", KING)>>,
       <<Up("CLUBS", KING)>>,
       <<Down("SPADES", 12), Up("CLUBS", 11)>> >>

\* two red cards in a row over a black King's column, and a 9 and a 7 beside
\* a red 10
LooseColumns ==
    << <<Up("SPADES", KING)>>,
       <<Down("HEARTS", 10), Up("HEARTS", 12), Up("DIAMONDS", 11)>>,
       <<Up("CLUBS", 9), Up("DIAMONDS", 7)>>,
       <<Up("DIAMONDS", 10)>>,
       <<>>, <<>>, <<>> >>

RuleStates ==
    { \* the deal of the deck in order
      Engine_new_game(History_clear(<<>>), 0).state,
      \* a game in progress, with and without cards on the waste
      Layout(MidFoundations, MidColumns, <<Up("CLUBS", 4), Up("DIAMONDS", 2)>>),
      Layout(MidFoundations, MidColumns, <<>>),
      \* the same with a waste card that fits on a column and on no
      \* foundation
      Layout(MidFoundations, MidColumns, <<Up("DIAMONDS", 2), Up("HEARTS", 6)>>),
      \* the stock run out, six cards left to play
      Layout(<<Built("HEARTS", 13), Built("DIAMONDS", 13),
               Built("CLUBS", 10), Built("SPADES", 10)>>,
             << <<Up("CLUBS", KING)>>, <<Up("SPADES", KING)>>,
                <<Down("SPADES", 12), Up("SPADES", 11)>>, <<Up("CLUBS", 12)>>,
                <<>>, <<>>, <<>> >>,
             <<Up("CLUBS", 11)>>),
      \* twelve cards left to play: the foundations' top cards would fit on
      \* the 10 of Hearts, and the face-down Jack of Spades under it would
      \* fit on the Queen of Hearts
      Layout(EndFoundations, EndColumns,
             <<Up("SPADES", 10), Up("CLUBS", 12), Up("CLUBS", 10)>>),
      \* a position set up by a caller of the rule set (the piles of a
      \* GameState are plain lists): face-up cards that do not form a run
      Layout(<<<<>>, <<>>, <<>>, <<>>>>, LooseColumns, <<>>),
      \* one card from the win
      Layout(<<Built("HEARTS", 13), Built("DIAMONDS", 13),
               Built("CLUBS", 13), Built("SPADES", 12)>>,
             << <<Up("SPADES", KING)>>, <<>>, <<>>, <<>>, <<>>, <<>>, <<>> >>,
             <<>>),
      \* the game won
      Layout(<<Built("HEARTS", 13), Built("DIAMONDS", 13),
               Built("CLUBS", 13), Built("SPADES", 13)>>, NoColumns, <<>>) }

\* the card lists offered to can_drop: none, every single card, and pairs
\* descending by one from a King, a 7 or a 6
DropCards ==
    {<<>>}
    \cup {<<Up(s, r)>> : s \in SuitNames, r \in Rank}
    \cup {<<Up(s, r), Up(t, r - 1)>> : s \in SuitNames, t \in SuitNames,
                                       r \in {KING, 7, 6}}

Calls ==
    {[NoCall EXCEPT !.op = "check_win"]}
    \cup {[NoCall EXCEPT !.op = "can_take", !.pile = p, !.count = c] :
              p \in AllNames, c \in 0..MaxTake}
    \cup {[NoCall EXCEPT !.op = "can_drop", !.to = t, !.cards = cs] :
              t \in PileNames, cs \in DropCards}
    \cup {[NoCall EXCEPT !.op = "can_move", !.pile = p, !.to = t, !.count = c] :
              p \in AllNames, t \in AllNames, c \in 0..MaxTake}
    \cup {[NoCall EXCEPT !.op = "get_available_moves"]}
    \cup {[NoCall EXCEPT !.op = "get_hint"]}

InitRules ==
    /\ EngineIdle
    /\ RefIdle
    /\ MoreIdle
    /\ q_state \in RuleStates
    /\ q_call \in Calls
    /\ q_ret = "pending"
    /\ q_moves = <<>>

Bool(b) == IF b THEN "True" ELSE "False"

\* a rule-set method returns: none of them assigns to the state it is given
Return(b) ==
    /\ q_ret' = Bool(b)
    /\ UNCHANGED <<q_state, q_call, q_moves, engineVars, refVars, moreVars>>

rules_check_win ==
    /\ q_ret = "pending"
    /\ q_call.op = "check_win"
    /\ Return(check_win(q_state))

rules_can_take ==
    /\ q_ret = "pending"
    /\ q_call.op = "can_take"
    /\ Return(can_take(q_state, q_call.pile, q_call.count))

rules_can_drop ==
    /\ q_ret = "pending"
    /\ q_call.op = "can_drop"
    /\ Return(can_drop(q_state, q_call.to, q_call.cards))

rules_can_move ==
    /\ q_ret = "pending"
    /\ q_call.op = "can_move"
    /\ Return(can_move(q_state,
                       Candidate(q_state, q_call.pile, q_call.to, q_call.count)))

rules_get_available_moves ==
    /\ q_ret = "pending"
    /\ q_call.op = "get_available_moves"
    /\ LET listing == get_available_moves(q_state)
       IN  /\ q_ret' = IF listing = TypeError THEN "TypeError" ELSE "list"
           /\ q_moves' = listing.moves
    /\ UNCHANGED <<q_state, q_call, engineVars, refVars, moreVars>>

rules_get_hint ==
    /\ q_ret = "pending"
    /\ q_call.op = "get_hint"
    /\ LET r == get_hint(q_state)
       IN  /\ q_ret' = IF r.raised # "" THEN r.raised
                       ELSE IF r.hint = None THEN "None" ELSE "Move"
           /\ q_moves' = IF r.hint = None THEN <<>> ELSE <<r.hint>>
    /\ UNCHANGED <<q_state, q_call, engineVars, refVars, moreVars>>

NextRules ==
    \/ rules_check_win
    \/ rules_can_take
    \/ rules_can_drop
    \/ rules_can_move
    \/ rules_get_available_moves
    \/ rules_get_hint

SpecRules == InitRules /\ [][NextRules]_vars

\* the call has returned
returned(op) == q_call.op = op /\ q_ret # "pending"

\* every state passed to the rule set holds the 52 cards once
RuleStatesWellFormed ==
    \A st \in RuleStates :
        /\ Len(AllCards(st)) = 52
        /\ Faces(AllCards(st)) = SuitNames \X Rank

\* C12: check_win returns True exactly when each of the four foundation
\* piles holds exactly 13 cards, and the state it was given is unchanged.
C12_CheckWin ==
    [][(q_call.op = "check_win" /\ q_ret' # q_ret) =>
          /\ q_ret' = Bool(\A f \in FoundationNames : Len(q_state.piles[f]) = 13)
          /\ q_state' = q_state]_vars

\* check_win has answered True
C12_Witness == returned("check_win") /\ q_ret = "True"

Red(c) == suit(c) \in {"HEARTS", "DIAMONDS"}

\* the tableau build rule as stated: a non-empty run goes onto an empty
\* column if it starts with a King, onto a non-empty column if the column's
\* top card has the other colour and the next higher rank
TableauAccepts(pile, cards) ==
    /\ cards # <<>>
    /\ \/ pile = <<>> /\ rank(cards[1]) = KING
       \/ /\ pile # <<>>
          /\ Red(pile[Len(pile)]) # Red(cards[1])
          /\ rank(pile[Len(pile)]) = rank(cards[1]) + 1

\* C18: can_drop on a tableau column answers a non-empty run exactly as the
\* tableau build rule says, and can_move rejects every move onto a column
\* that the rule does not accept (a black 5 onto a black 7); the state passed
\* is unchanged.
C18_TableauBuildRule ==
    [][/\ ( /\ q_call.op = "can_drop"
            /\ q_ret' # q_ret
            /\ q_call.to \in TableauNames
            /\ q_call.cards # <<>> ) =>
            /\ q_ret' = Bool(TableauAccepts(q_state.piles[q_call.to], q_call.cards))
            /\ q_state' = q_state
       /\ ( /\ q_call.op = "can_move"
            /\ q_ret' # q_ret
            /\ q_call.to \in TableauNames
            /\ ~TableauAccepts(q_state.piles[q_call.to],
                               Candidate(q_state, q_call.pile, q_call.to,
                                         q_call.count).cards) ) =>
            /\ q_ret' = "False"
            /\ q_state' = q_state]_vars

\* can_move has rejected a face-up black 5 offered to a column topped by a
\* black 7
C18_Witness ==
    /\ returned("can_move")
    /\ q_ret = "False"
    /\ q_call.pile \in TableauNames
    /\ q_call.to \in TableauNames
    /\ q_call.count = 1
    /\ q_state.piles[q_call.pile] # <<>>
    /\ q_state.piles[q_call.to] # <<>>
    /\ LET five  == top(q_state.piles[q_call.pile])
           seven == top(q_state.piles[q_call.to])
       IN  /\ rank(five) = 5 /\ ~Red(five) /\ face_up(five)
           /\ rank(seven) = 7 /\ ~Red(seven)

\* C19: can_drop on a foundation accepts exactly when one single card is
\* dropped, the foundation holds fewer than 13 cards, and either it is empty
\* and the card is an Ace or the card has the suit of its top card and the
\* next higher rank.
C19_FoundationBuildRule ==
    [][( /\ q_call.op = "can_drop"
         /\ q_ret' # q_ret
         /\ q_call.to \in FoundationNames ) =>
          LET pile  == q_state.piles[q_call.to]
              cards == q_call.cards
          IN  /\ q_ret' = Bool(/\ Len(cards) = 1
                               /\ Len(pile) < 13
                               /\ \/ pile = <<>> /\ rank(cards[1]) = ACE
                                  \/ /\ pile # <<>>
                                     /\ suit(cards[1]) = suit(pile[Len(pile)])
                                     /\ rank(cards[1]) = rank(pile[Len(pile)]) + 1)
              /\ q_state' = q_state]_vars

\* a card was accepted on a foundation that already held cards
C19_Witness ==
    /\ returned("can_drop")
    /\ q_call.to \in FoundationNames
    /\ q_state.piles[q_call.to] # <<>>
    /\ q_ret = "True"

\* the number of face-up cards at the top of a pile, with none face-down
\* between them
RunLength(p) ==
    CHOOSE k \in 0..Len(p) :
        /\ \A i \in (Len(p) - k + 1)..Len(p) : face_up(p[i])
        /\ k = Len(p) \/ ~face_up(p[Len(p) - k])

\* C20 as claimed: can_take is False for every foundation and for the stock,
\* True for the waste exactly when the waste is non-empty and count is 1,
\* and True for a tableau column exactly when count does not exceed the
\* column's face-up run length.
C20_CanTakeAsClaimed ==
    [][( /\ q_call.op = "can_take"
         /\ q_ret' # q_ret
         /\ q_call.pile \in PileNames ) =>
          q_ret' = Bool(IF q_call.pile \in FoundationNames \cup {"stock"} THEN FALSE
                        ELSE IF q_call.pile = "waste"
                        THEN q_state.waste # <<>> /\ q_call.count = 1
                        ELSE q_call.count <= RunLength(q_state.piles[q_call.pile]))]_vars

\* C20: can_take is False for every foundation and for the stock, True for
\* the waste exactly when the waste is non-empty and count is 1, and True
\* for a tableau column exactly when the column is non-empty and count does
\* not exceed its face-up run length.
C20_CanTake ==
    [][( /\ q_call.op = "can_take"
         /\ q_ret' # q_ret
         /\ q_call.pile \in PileNames ) =>
          q_ret' = Bool(IF q_call.pile \in FoundationNames \cup {"stock"} THEN FALSE
                        ELSE IF q_call.pile = "waste"
                        THEN q_state.waste # <<>> /\ q_call.count = 1
                        ELSE /\ q_state.piles[q_call.pile] # <<>>
                             /\ q_call.count <=
                                    RunLength(q_state.piles[q_call.pile]))]_vars

\* can_take has allowed a whole face-up run of two or more cards to leave a
\* column
C20_Witness ==
    /\ returned("can_take")
    /\ q_call.pile \in TableauNames
    /\ q_call.count >= 2
    /\ q_call.count = RunLength(q_state.piles[q_call.pile])
    /\ q_ret = "True"

\* the history of an engine that has just been handed the state st
Fresh(st) == History_push(History_clear(<<>>), st, None, HistoryLimit)

Lifted(p, n) == [i \in 1..Min(n, Len(p)) |-> p[Len(p) - Min(n, Len(p)) + i]]

\* each card is of the other colour than, and one rank below, the card under it
IsRun(cards) ==
    \A i \in 1..(Len(cards) - 1) :
        /\ Red(cards[i]) # Red(cards[i + 1])
        /\ rank(cards[i]) = rank(cards[i + 1]) + 1

\* C22: can_move rejects every move from a tableau column whose lifted cards
\* (the top n cards of the column) exceed the column's face-up run length or
\* are not, pairwise in order, of alternating colour and descending in rank
\* by exactly one.  The Move handed to can_move carries the lifted cards, so
\* n is the number of cards it carries (a candidate built for more cards
\* than the column holds carries the whole column).
C22_TableauLiftRejected ==
    ( /\ returned("can_move")
      /\ q_call.pile \in TableauNames
      /\ LET col == q_state.piles[q_call.pile]
             n   == Len(Lifted(col, q_call.count))
         IN  n > RunLength(col) \/ ~IsRun(Lifted(col, n)) ) =>
        q_ret = "False"

\* refused although the destination accepts the bottom card lifted: once for
\* a face-down card among the lifted ones, once for two face-up cards of one
\* colour, once for two face-up cards two ranks apart
C22_RefusedFor(why) ==
    /\ returned("can_move")
    /\ q_ret = "False"
    /\ q_call.pile \in TableauNames
    /\ q_call.count = 2
    /\ Len(q_state.piles[q_call.pile]) >= 2
    /\ _validate_basic(q_state, Candidate(q_state, q_call.pile, q_call.to, 2))
    /\ can_drop(q_state, q_call.to,
                Candidate(q_state, q_call.pile, q_call.to, 2).cards)
    /\ LET col   == q_state.piles[q_call.pile]
           cards == Lifted(col, 2)
       IN  CASE why = "face-down" -> RunLength(col) = 1 /\ IsRun(cards)
             [] why = "colour"    -> /\ RunLength(col) >= 2
                                     /\ Red(cards[1]) = Red(cards[2])
                                     /\ rank(cards[1]) = rank(cards[2]) + 1
             [] why = "rank"      -> /\ RunLength(col) >= 2
                                     /\ Red(cards[1]) # Red(cards[2])
                                     /\ rank(cards[1]) # rank(cards[2]) + 1

C22_Witness == C22_RefusedFor("face-down")

C22_WitnessColour == C22_RefusedFor("colour")

C22_WitnessRank == C22_RefusedFor("rank")

\* the cards a move from a tableau column leaves face-down on top of it
Exposed(st, from_pile, n) ==
    IF /\ from_pile \in TableauNames
       /\ Len(st.piles[from_pile]) > n
       /\ ~face_up(st.piles[from_pile][Len(st.piles[from_pile]) - n])
    THEN {Len(st.piles[from_pile]) - n}
    ELSE {}

\* the score change of a move as stated: +10 onto a foundation, +5 for each
\* card revealed, -15 off a foundation
StatedDelta(st, from_pile, to_pile, n) ==
    (IF to_pile \in FoundationNames THEN 10 ELSE 0)
    + 5 * Cardinality(Exposed(st, from_pile, n))
    + (IF from_pile \in FoundationNames THEN -15 ELSE 0)

\* C23: the score change committed by a successful move is +10 if the
\* destination is a foundation, plus 5 for each card revealed face-up as a
\* side effect, and -15 if the source is a foundation; the committed state's
\* score is the previous score plus this delta and the Move built for the
\* history records the same delta.  Stated of the committing step of move(),
\* _execute_move, for every move can_move accepts in the current state.
C23_MoveScore ==
    active =>
        \A from_pile \in PileNames, to_pile \in PileNames, n \in 1..13 :
            can_move(state, Candidate(state, from_pile, to_pile, n)) =>
                LET x == _execute_move(state, from_pile, to_pile, n)
                    d == StatedDelta(state, from_pile, to_pile, n)
                IN  ~x.raised =>
                        /\ x.new_state.score = state.score + d
                        /\ x.move.score_delta = d

\* C24: a successful move that leaves a face-down card at the top of its
\* source tableau column turns that card face-up in the committed state and
\* records it (pile name, index) in the Move's flipped-card list, so that
\* every non-empty tableau column of a reachable state has a face-up top
\* card.  Stated of the committing step of move(), _execute_move, for every
\* move can_move accepts in the current state.
C24_FlipExposedCard ==
    active =>
        /\ \A c \in TableauNames :
              state.piles[c] # <<>> => face_up(top(state.piles[c]))
        /\ \A from_pile \in TableauNames, to_pile \in PileNames, n \in 1..13 :
              can_move(state, Candidate(state, from_pile, to_pile, n)) =>
                  LET x == _execute_move(state, from_pile, to_pile, n)
                  IN  (~x.raised /\ Exposed(state, from_pile, n) # {}) =>
                          /\ face_up(top(x.new_state.piles[from_pile]))
                          /\ x.move.flipped_cards
                                = <<<<from_pile,
                                      Len(x.new_state.piles[from_pile]) - 1>>>>

(***************************************************************************)
(* The engine's event channel: callbacks are registered and removed, an    *)
(* operation of the engine emits an event, and a callback that is called   *)
(* may itself call add_listener or remove_listener on the engine.          *)
(***************************************************************************)
\* a callback that listens only, one that removes itself when it is called,
\* and one that registers the Helper callback when it is called
Kinds == {"quiet", "one_shot", "recruiter"}

Helper == 0

Callbacks == 1..MaxCallbacks

\* the events an operation of the engine notifies
Emitted == {"game_started", "draw", "recycle", "move_made", "game_won",
            "undo", "redo"}

Occurrences(ls, cb) == Cardinality({i \in 1..Len(ls) : ls[i] = cb})

Engine_add_listener(ls, cb) == Append(ls, cb)

\* list.remove deletes the first occurrence
Engine_remove_listener(ls, cb) ==
    IF Occurrences(ls, cb) = 0 THEN ls
    ELSE LET j == CHOOSE i \in 1..Len(ls) :
                      ls[i] = cb /\ \A k \in 1..(i - 1) : ls[k] # cb
         IN  SubSeq(ls, 1, j - 1) \o SubSeq(ls, j + 1, Len(ls))

\* what the callback cb does to the engine when it is called
Called(ls, k, cb) ==
    IF k[cb] = "one_shot" THEN Engine_remove_listener(ls, cb)
    ELSE IF k[cb] = "recruiter" THEN Engine_add_listener(ls, Helper)
    ELSE ls

\* `for listener in self._listeners: listener(event, data)`: the loop reads
\* the list itself, position after position, until the position is past the
\* end of the list as it then is
RECURSIVE Engine_notify(_, _, _, _)
Engine_notify(ls, k, i, called) ==
    IF i > Len(ls) THEN [listeners |-> ls, heard |-> called]
    ELSE Engine_notify(Called(ls, k, ls[i]), k, i + 1, Append(called, ls[i]))

EngineAndRulesIdle == EngineIdle /\ RefIdle /\ RulesIdle

InitNotify ==
    /\ EngineAndRulesIdle
    /\ PileIdle
    /\ BridgeIdle
    /\ exported = NoExport
    /\ ObjIdle
    /\ listeners = <<>>
    /\ kinds \in {k \in [Callbacks \cup {Helper} -> Kinds] : k[Helper] = "quiet"}
    /\ heard = <<>>
    /\ emitted = [event |-> "none", found |-> <<>>]

add_listener ==
    /\ Len(listeners) < MaxListeners
    /\ \E cb \in Callbacks : listeners' = Engine_add_listener(listeners, cb)
    /\ heard' = <<>>
    /\ emitted' = [event |-> "none", found |-> <<>>]
    /\ UNCHANGED <<kinds, outsideNotify>>

remove_listener ==
    /\ \E cb \in Callbacks : listeners' = Engine_remove_listener(listeners, cb)
    /\ heard' = <<>>
    /\ emitted' = [event |-> "none", found |-> <<>>]
    /\ UNCHANGED <<kinds, outsideNotify>>

\* an operation of the engine reaches self._notify(event, data)
notify ==
    \E event \in Emitted :
        LET r == Engine_notify(listeners, kinds, 1, <<>>)
        IN  /\ Len(r.listeners) <= MaxListeners
            /\ listeners' = r.listeners
            /\ heard' = r.heard
            /\ emitted' = [event |-> event, found |-> listeners]
            /\ UNCHANGED <<kinds, outsideNotify>>

NextNotify == add_listener \/ remove_listener \/ notify

SpecNotify == InitNotify /\ [][NextNotify]_vars

\* the callbacks whose registrations the notification left as it found them
Untouched(cb) == Occurrences(emitted.found, cb) = Occurrences(listeners, cb)

\* C25: every event the engine emits is delivered, before the emitting
\* operation returns, to every registered listener exactly once and in
\* registration order, also when a listener registers or removes a listener
\* while it is notified: the callbacks that were registered when the event
\* was emitted and whose registration nobody touched are called once per
\* registration, in the order of registration.
C25_EveryListenerOnceInOrder ==
    emitted.event # "none" =>
        SelectSeq(heard, Untouched) = SelectSeq(emitted.found, Untouched)

(***************************************************************************)
(* A Pile used on its own: a caller adds cards to it and takes cards off   *)
(* its top.                                                                *)
(***************************************************************************)
\* the cards the caller adds
PileCards == {Up("HEARTS", ACE), Down("HEARTS", 2), Up("SPADES", 3)}

\* the counts passed to take: negative, zero, within the pile and beyond it
TakeCounts == -1..(MaxPile + 1)

InitPile ==
    /\ EngineAndRulesIdle
    /\ NotifyIdle
    /\ PileIdle
    /\ BridgeIdle
    /\ exported = NoExport
    /\ ObjIdle

pile_add ==
    /\ \E c \in PileCards :
          /\ Len(p_pile) < MaxPile
          /\ p_pile' = add(p_pile, <<c>>)
          /\ p_ret' = <<>>
          /\ p_last' = [op |-> "add", n |-> 1, before |-> p_pile]
    /\ UNCHANGED outsidePile

pile_take ==
    /\ \E n \in TakeCounts :
          LET t == take(p_pile, n)
          IN  /\ p_pile' = t.rest
              /\ p_ret' = t.taken
              /\ p_last' = [op |-> "take", n |-> n, before |-> p_pile]
    /\ UNCHANGED outsidePile

NextPile == pile_add \/ pile_take

SpecPile == InitPile /\ [][NextPile]_vars

\* C26: take(n) removes and returns the top n cards in their original order
\* when 1 <= n <= size; when n <= 0 or n exceeds the pile size it returns no
\* cards and leaves the pile unchanged.
C26_Take ==
    p_last.op = "take" =>
        LET b == p_last.before
            n == p_last.n
        IN  IF 1 <= n /\ n <= Len(b)
            THEN /\ p_ret = [i \in 1..n |-> b[Len(b) - n + i]]
                 /\ p_pile = [i \in 1..(Len(b) - n) |-> b[i]]
            ELSE /\ p_ret = <<>>
                 /\ p_pile = b

\* the first element of a sequence that satisfies P
First(seq, P(_)) ==
    seq[CHOOSE i \in 1..Len(seq) : P(seq[i]) /\ \A k \in 1..(i - 1) : ~P(seq[k])]

ToFoundation(m) == m.to_pile \in FoundationNames

FromWaste(m) == m.from_pile = "waste"

AnyMove(m) == TRUE

Some(seq, P(_)) == \E i \in 1..Len(seq) : P(seq[i])

\* C27: get_hint returns none exactly when get_available_moves is empty;
\* otherwise it returns the first available move whose destination is a
\* foundation if there is one, else the first available move whose source is
\* the waste, else the first remaining move.
C27_HintPriority ==
    returned("get_hint") =>
        /\ q_ret \in {"None", "Move"}
        /\ LET avail == get_available_moves(q_state).moves
           IN  /\ get_available_moves(q_state) # TypeError
               /\ q_ret = "None" <=> avail = <<>>
               /\ avail # <<>> =>
                     q_moves = << IF Some(avail, ToFoundation)
                                  THEN First(avail, ToFoundation)
                                  ELSE IF Some(avail, FromWaste)
                                  THEN First(avail, FromWaste)
                                  ELSE First(avail, AnyMove) >>

\* the moves the listing is said to hold: a run lifted off the top of a
\* column, the top card of the waste or the top card of a foundation, taken
\* to another column or to a foundation
Listed(st) ==
    { Candidate(st, x[1], x[2], x[3]) :
        x \in { y \in (TableauNames \cup FoundationNames \cup {"waste"})
                      \X (TableauNames \cup FoundationNames) \X (1..13) :
                  /\ y[1] # y[2]
                  /\ y[3] <= Len(get_pile(st, y[1]))
                  /\ y[1] \notin TableauNames => y[3] = 1
                  /\ can_move(st, Candidate(st, y[1], y[2], y[3])) } }

\* C28: get_available_moves returns, with no two entries sharing the same
\* (source, destination, card count), exactly the moves accepted by can_move
\* on that state whose source is a run at the top of a tableau column, the
\* top waste card or the top card of a foundation and whose destination is
\* another tableau column or a foundation.
C28_AvailableMoves ==
    returned("get_available_moves") =>
        /\ q_ret = "list"
        /\ \A i, j \in 1..Len(q_moves) :
              i # j => <<q_moves[i].from_pile, q_moves[i].to_pile,
                         Len(q_moves[i].cards)>>
                       # <<q_moves[j].from_pile, q_moves[j].to_pile,
                           Len(q_moves[j].cards)>>
        /\ {[from_pile |-> q_moves[i].from_pile, to_pile |-> q_moves[i].to_pile,
             cards |-> q_moves[i].cards] : i \in 1..Len(q_moves)}
           = {[from_pile |-> m.from_pile, to_pile |-> m.to_pile,
               cards |-> m.cards] : m \in Listed(q_state)}

(***************************************************************************)
(* gui/godot_bridge.py: the handler keeps one engine per client address in *)
(* the class-level dict `games`; POST /new builds an engine for the        *)
(* client, every other POST acts on the client's engine.                   *)
(***************************************************************************)
\* the variants GameFactory knows, and the draw_three each passes to the rules
Variants == {"klondike", "klondike-3"}

GameFactory_create(variant) == [draw_three |-> variant = "klondike-3"]

\* a constructor that hands every engine the HistoryManager made first
SolitaireEngine_shared_history(rules, histories) ==
    [engine    |-> [state |-> None, history |-> 1, draw_three |-> rules.draw_three],
     histories |-> IF histories = <<>> THEN <<History_clear(<<>>)>>
                   ELSE histories]

\* SolitaireEngine.__init__: no state, a HistoryManager of its own
SolitaireEngine(rules, histories) ==
    [engine    |-> [state |-> None, history |-> Len(histories) + 1,
                    draw_three |-> rules.draw_three],
     histories |-> Append(histories, History_clear(<<>>))]

\* the engine of a session, None if the session has none
_get_engine(session_id) ==
    IF b_games[session_id] = 0 THEN None ELSE b_engines[b_games[session_id]]

\* an operation of the engine object e came to the outcome o
Stored_outcome(e, o) ==
    /\ b_engines' = [b_engines EXCEPT ![e].state = o.state]
    /\ b_histories' = [b_histories EXCEPT ![b_engines[e].history] = o.h]

\* the dict entry of a session is overwritten by its new engine: the engine
\* it held before (old, 0 for none) is referenced by nothing any more, and
\* neither is its history unless another engine holds it.  An object no
\* request can reach is kept as an engine without a state and an empty history.
Unreferenced(old, engines, histories) ==
    IF old = 0 THEN [engines |-> engines, histories |-> histories]
    ELSE LET h    == engines[old].history
             held == \E k \in 1..Len(engines) : k # old /\ engines[k].history = h
         IN  [engines   |-> [engines EXCEPT ![old].state = None],
              histories |-> IF held THEN histories
                            ELSE [histories EXCEPT ![h] = History_clear(<<>>)]]

InitBridge ==
    /\ EngineAndRulesIdle
    /\ NotifyIdle
    /\ PileIdle
    /\ BridgeIdle
    /\ exported = NoExport
    /\ ObjIdle

\* POST /new: _create_engine, whose new_game() deals a deck shuffled without
\* a seed
post_new ==
    /\ Len(b_engines) < MaxEngines
    /\ \E session_id \in Sessions, variant \in Variants, seed \in {0, MaxSeed} :
          LET made == SolitaireEngine(GameFactory_create(variant), b_histories)
              e    == Len(b_engines) + 1
          IN  \E o \in {Engine_new_game(made.histories[made.engine.history], seed)} :
              \E kept \in {Unreferenced(b_games[session_id],
                              Append(b_engines, [made.engine EXCEPT !.state = o.state]),
                              [made.histories EXCEPT ![made.engine.history] = o.h])} :
                  /\ b_engines' = kept.engines
                  /\ b_histories' = kept.histories
                  /\ b_games' = [b_games EXCEPT ![session_id] = e]
                  /\ b_last' = [session |-> session_id, path |-> "/new"]
    /\ UNCHANGED outsideBridge

\* the other POST requests answer 404 for a client without an engine
Served(session_id, path, o) ==
    /\ b_games[session_id] # 0
    /\ Len(o.h.entries) <= MaxSessionHist
    /\ Stored_outcome(b_games[session_id], o)
    /\ b_last' = [session |-> session_id, path |-> path]
    /\ UNCHANGED <<b_games, outsideBridge>>

Game(session_id) ==
    [state   |-> _get_engine(session_id).state,
     history |-> b_histories[_get_engine(session_id).history]]

post_draw ==
    \E session_id \in Sessions :
        /\ b_games[session_id] # 0
        /\ Served(session_id, "/draw",
                  Engine_draw(Game(session_id).state, Game(session_id).history,
                              _get_engine(session_id).draw_three))

post_move ==
    \E session_id \in Sessions, from_pile \in {"tableau_0"},
       to_pile \in {"tableau_1", "foundation_HEARTS"} :
        /\ b_games[session_id] # 0
        /\ Served(session_id, "/move",
                  Engine_move(Game(session_id).state, Game(session_id).history,
                              from_pile, to_pile, 1))

post_undo ==
    \E session_id \in Sessions :
        /\ b_games[session_id] # 0
        /\ Served(session_id, "/undo",
                  Engine_undo(Game(session_id).state, Game(session_id).history))

post_redo ==
    \E session_id \in Sessions :
        /\ b_games[session_id] # 0
        /\ Served(session_id, "/redo",
                  Engine_redo(Game(session_id).state, Game(session_id).history))

NextBridge == post_new \/ post_draw \/ post_move \/ post_undo \/ post_redo

SpecBridge == InitBridge /\ [][NextBridge]_vars

\* C29: two engines, as the HTTP bridge creates them one per session, share
\* no mutable game state: a request served for one session leaves the
\* engine of every other session, its current state, its history entries
\* and its history cursor as they were.
C29_SessionsIsolated ==
    [][\A s \in Sessions :
          (b_games[s] # 0 /\ b_last'.session # s) =>
              /\ b_games'[s] = b_games[s]
              /\ b_engines'[b_games[s]].state = b_engines[b_games[s]].state
              /\ b_histories'[b_engines'[b_games[s]].history]
                    = b_histories[b_engines[b_games[s]].history]]_vars

\* both sessions have an engine and have played; one has undone its draw,
\* and the last request drew a card in the other
C29_Witness ==
    /\ \A s \in Sessions : b_games[s] # 0
    /\ b_games["10.0.0.1"] # b_games["10.0.0.2"]
    /\ Len(Game("10.0.0.1").history.entries) = 2
    /\ Game("10.0.0.1").history.current = 0
    /\ Len(Game("10.0.0.2").history.entries) = 2
    /\ Game("10.0.0.2").history.current = 1
    /\ Game("10.0.0.2").state.waste # <<>>
    /\ b_last = [session |-> "10.0.0.2", path |-> "/draw"]

\* C30: the history export (HistoryManager.to_dict) is lossless: it holds
\* every entry's state and originating move (or none), in order, the cursor
\* and the limit, so that a history rebuilt from it has the same entries in
\* the same order and the same cursor.
C30_ExportLossless ==
    callerOp = "to_dict" =>
        /\ exported.raised = ""
        /\ Len(exported.entries) = Len(r_entries)
        /\ \A k \in 1..Len(r_entries) :
              /\ exported.entries[k].state = Deref(heap, r_entries[k].state)
              /\ exported.entries[k].move = r_entries[k].move
        /\ exported.current = r_current
        /\ exported.limit = r_limit

\* an engine that was dealt a game and has drawn until its stock ran out
RECURSIVE DrawnOut(_, _)
DrawnOut(o, three) ==
    IF is_empty(o.state.stock) THEN o
    ELSE LET after == CHOOSE x \in {Engine_draw(o.state, o.h, three)} : TRUE
         IN  DrawnOut(after, three)

\* the objects of a history of values: one GameState object per entry
RECURSIVE Ref_entries(_, _)
Ref_entries(hp, ventries) ==
    IF ventries = <<>> THEN [heap |-> hp, entries |-> <<>>]
    ELSE LET made == Ref_GameState(hp, ventries[1].state)
             rest == Ref_entries(made.heap, Tail(ventries))
         IN  [heap    |-> rest.heap,
              entries |-> <<HistoryEntry(made.id, ventries[1].move)>>
                          \o rest.entries]

\* the engines the runs start from: a new one, and one in the middle of a
\* game of the draw-three variant (new_game, then draw until the stock is
\* empty), its history entries and its _state each an object of its own
InitObjects ==
    /\ RulesIdle
    /\ NotifyIdle
    /\ PileIdle
    /\ BridgeIdle
    /\ exported = NoExport
    /\ draw_three \in BOOLEAN
    /\ state = None
    /\ entries = <<>>
    /\ current = -1
    /\ lastOp = "__init__"
    /\ ret = "None"
    /\ events = <<>>
    /\ line = <<>>
    /\ pos = 0
    /\ tour = "off"
    /\ unknown = {}
    /\ before = [len |-> 0, cur |-> -1]
    /\ r_limit = HistoryLimit
    /\ pushed = {}
    /\ mutated = {}
    /\ callerOp = "__init__"
    /\ r_result = 0
    /\ self_ret = "None"
    /\ \/ /\ heap = [s |-> <<>>, p |-> <<>>]
          /\ r_entries = <<>>
          /\ r_current = -1
          /\ origin = <<>>
          /\ self_state = 0
       \/ \E seed \in Seeds :
             LET o    == DrawnOut(Engine_new_game(History_clear(<<>>), seed),
                                  draw_three)
                 hist == Ref_entries([s |-> <<>>, p |-> <<>>], o.h.entries)
                 made == Ref_GameState(hist.heap, o.state)
             IN  /\ draw_three
                 /\ heap = made.heap
                 /\ r_entries = hist.entries
                 /\ r_current = o.h.current
                 /\ origin = [k \in 1..Len(made.heap.s) |-> "__init__"]
                 /\ self_state = made.id

\* the call name came to the outcome o; the objects it allocated are the
\* engine's own
Called_engine(name, o) ==
    /\ Cardinality({k \in 1..Len(origin) : origin[k] # "__init__"})
          + Len(o.heap.s) - Len(heap.s) <= MaxEngineObjects
    /\ heap' = o.heap
    /\ r_entries' = o.h.entries
    /\ r_current' = o.h.current
    /\ self_state' = o.state
    /\ self_ret' = o.ret
    /\ callerOp' = name
    /\ origin' = origin \o [k \in 1..(Len(o.heap.s) - Len(heap.s)) |-> name]
    /\ UNCHANGED <<r_limit, pushed, mutated, r_result, engineVars, rulesVars,
                   notifyVars, pileVars, bridgeVars, exported>>

obj_new_game ==
    \E seed \in Seeds :
        Called_engine("new_game", RefEngine_new_game(heap, r_history, seed))

obj_draw == Called_engine("draw", RefEngine_draw(heap, self_state, r_history, draw_three))

obj_move ==
    \E from_pile \in {"waste", "tableau_0"}, to_pile \in {"tableau_1", "foundation_HEARTS"} :
        Called_engine("move", RefEngine_move(heap, self_state, r_history,
                                             from_pile, to_pile, 1))

obj_undo == Called_engine("undo", RefEngine_undo(heap, self_state, r_history))

obj_redo == Called_engine("redo", RefEngine_redo(heap, self_state, r_history))

NextObjects == obj_new_game \/ obj_draw \/ obj_move \/ obj_undo \/ obj_redo

SpecObjects == InitObjects /\ [][NextObjects]_vars

\* the GameState objects the history entries name
InHistory == {r_entries[k].state : k \in 1..Len(r_entries)}

\* the entries up to the cursor: the ones a push keeps
KeptEntries == SubSeq(r_entries, 1, r_current + 1)

\* C31: no engine operation changes the contents of a history entry once
\* it is stored, nor mutates the state object that was current before the
\* operation: every such object reads after the call as it read before.
\* move, draw (with its recycle), undo and redo leave the entry list as it
\* is (moving the cursor at most), or keep the entries up to the cursor,
\* append one or two entries of new objects and evict from the front.
C31_StoredEntriesImmutable ==
    [][callerOp' \in EngineCalls =>
          /\ \A sid \in InHistory \cup ({self_state} \ {0}) :
                Deref(heap', sid) = Deref(heap, sid)
          /\ callerOp' # "new_game" =>
                \/ r_entries' = r_entries
                \/ \E m \in 1..2 : \E d \in 0..m :
                      /\ d <= Len(KeptEntries)
                      /\ Len(r_entries') = Len(KeptEntries) - d + m
                      /\ \A k \in 1..(Len(KeptEntries) - d) :
                            r_entries'[k] = KeptEntries[k + d]
                      /\ \A k \in (Len(KeptEntries) - d + 1)..Len(r_entries') :
                            r_entries'[k].state > Len(heap.s)
                      /\ r_current' = Len(r_entries') - 1]_vars

\* a draw that recycled has just pushed two entries, the recycled state and
\* the drawn one; the engine's state is an object of its own
C31_Witness ==
    /\ callerOp = "draw"
    /\ self_ret = "True"
    /\ Len(r_entries) >= 4
    /\ r_entries[Len(r_entries) - 1].move.from_pile = "waste"
    /\ self_state \notin InHistory

\* C32: whenever a game is active, between two calls, the engine's current
\* state is equal in content (every pile in order with the orientation of
\* its cards, score, move counter) to the snapshot stored at the history
\* cursor, after any sequence of new_game, move, draw, undo and redo.
C32_StateIsCursorSnapshot ==
    active =>
        /\ 0 <= current
        /\ current < Len(entries)
        /\ entries[current + 1].state = state

\* a draw that recycled was undone twice: the cursor is two entries below
\* the top, on the snapshot taken before that draw
C32_Witness ==
    /\ active
    /\ lastOp = "undo"
    /\ ret = "True"
    /\ current = Len(entries) - 3
    /\ entries[Len(entries) - 1].move.from_pile = "waste"
    /\ state.waste # <<>>
    /\ state.stock = <<>>

\* C33: a draw() call that recycles appends two history entries, the
\* snapshot after the recycle and then the snapshot after the draw.  One
\* undo() after the call lands on the recycled state (waste empty, the
\* stock refilled face-down), not on the state held before the call; a
\* second undo() reaches that one.
C33_RecyclingDrawTakesTwoUndos ==
    [][(lastOp' = "draw" /\ EventNames(events') = <<"recycle", "draw">>) =>
          LET kept == SubSeq(entries, 1, current + 1)
              u1   == Engine_undo(state', [entries |-> entries', current |-> current'])
              u2   == Engine_undo(u1.state, u1.h)
          IN  /\ Len(entries') = Len(kept) + 2
              /\ SubSeq(entries', 1, Len(kept)) = kept
              /\ current' = Len(entries') - 1
              /\ entries'[Len(kept) + 1].move.from_pile = "waste"
              /\ entries'[Len(kept) + 2].move.from_pile = "stock"
              /\ entries'[Len(kept) + 2].state = state'
              /\ u1.ret = "True"
              /\ u1.state = entries'[Len(kept) + 1].state
              /\ is_empty(u1.state.waste)
              /\ Len(u1.state.stock) = Len(state.waste)
              /\ \A i \in 1..Len(u1.state.stock) : ~face_up(u1.state.stock[i])
              /\ u1.state # state
              /\ u2.ret = "True"
              /\ u2.state = state]_vars

\* the one undo after a recycling draw: the engine holds the recycled
\* state, and the snapshot of the draw is the only one beyond the cursor
C33_Witness ==
    /\ lastOp = "undo"
    /\ ret = "True"
    /\ current = Len(entries) - 2
    /\ entries[current + 1].move # None
    /\ entries[current + 1].move.from_pile = "waste"
    /\ is_empty(state.waste)
    /\ ~is_empty(state.stock)

\* how many of the events are named name
Count(evs, name) == Cardinality({i \in 1..Len(evs) : evs[i].event = name})

\* C34: every draw() call ends after at most one recycle and one retry.  A
\* recycle event is notified only by a draw() call that found the stock
\* empty and the waste not empty, at most once in the call, and it is
\* followed by exactly one draw event before the call returns.
C34_OneRecycleOneRetry ==
    [][/\ lastOp' # "draw" => Count(events', "recycle") = 0
       /\ lastOp' = "draw" =>
             /\ EventNames(events') \in {<<>>, <<"draw">>, <<"recycle", "draw">>}
             /\ Count(events', "recycle") = 1 =>
                   /\ active
                   /\ is_empty(state.stock)
                   /\ ~is_empty(state.waste)
                   /\ ret' = "True"
                   /\ ~is_empty(state'.waste)]_vars

\* a draw-one game: the call that recycled the 24 cards of the waste has
\* returned with one card drawn
C34_Witness ==
    /\ ~draw_three
    /\ lastOp = "draw"
    /\ ret = "True"
    /\ EventNames(events) = <<"recycle", "draw">>
    /\ Len(state.waste) = get_draw_count(draw_three)
    /\ Len(state.stock) + Len(state.waste) = events[1].data.count

\* C35: the history cursor always satisfies -1 <= cursor <= number of
\* entries - 1, it is -1 exactly when the history is empty, and right after
\* every push it designates the last entry, so that can_redo is false.
C35_CursorInRange ==
    /\ -1 <= r_current
    /\ r_current <= Len(r_entries) - 1
    /\ r_current = -1 <=> r_entries = <<>>
    /\ callerOp = "push" =>
          /\ r_current = Len(r_entries) - 1
          /\ ~can_redo(r_history)

\* a push has just cut off an undone entry: the history is not full, the
\* cursor is on the entry pushed, and an object the history once stored is
\* no longer one of its entries
C35_Witness ==
    /\ callerOp = "push"
    /\ r_limit = DefaultLimit
    /\ Len(r_entries) >= 2
    /\ r_current = Len(r_entries) - 1
    /\ \E i \in StoredObjects : \A k \in 1..Len(r_entries) : r_entries[k].state # i

\* every card of the stock of st is face-down, every card of its waste face-up
StockDownWasteUp(st) ==
    /\ \A i \in 1..Len(st.stock) : ~face_up(st.stock[i])
    /\ \A i \in 1..Len(st.waste) : face_up(st.waste[i])

\* C36: in every reachable state, and in every snapshot stored in the
\* history, every card in the stock is face-down and every card in the
\* waste is face-up.
C36_StockDownWasteUp ==
    /\ active => StockDownWasteUp(state)
    /\ \A k \in 1..Len(entries) : StockDownWasteUp(entries[k].state)

\* cards that were face-up in the waste lie in the stock again after a
\* recycle, some were drawn a second time, and the history holds both the
\* snapshot with the full waste and the one with the refilled stock
C36_Witness ==
    /\ active
    /\ ~is_empty(state.stock)
    /\ ~is_empty(state.waste)
    /\ \E k \in 1..Len(entries) :
          /\ is_empty(entries[k].state.stock)
          /\ ~is_empty(entries[k].state.waste)
          /\ k + 2 <= current + 1
          /\ is_empty(entries[k + 1].state.waste)

\* a gap-free ascending run Ace, 2, ..., k of face-up cards of one suit
FoundationRun(p) ==
    \A i \in 1..Len(p) :
        /\ rank(p[i]) = i
        /\ face_up(p[i])
        /\ suit(p[i]) = suit(p[1])

FoundationRuns(st) ==
    /\ \A f \in FoundationNames : FoundationRun(st.piles[f])
    /\ \A f \in FoundationNames : Len(st.piles[f]) <= KING

\* C37: in every reachable state each foundation pile is a gap-free
\* ascending run Ace, 2, ..., k (0 <= k <= 13) of face-up cards of one
\* single suit.  The states given to the rule set, the deal among them,
\* have such foundations, and every move that can_move accepts in one of
\* them leaves them such runs when _execute_move has carried it out.
C37_FoundationsAreRuns ==
    /\ FoundationRuns(q_state)
    /\ (returned("can_move") /\ q_ret = "True") =>
          LET x == _execute_move(q_state, q_call.pile, q_call.to, q_call.count)
          IN  x.raised \/ FoundationRuns(x.new_state)

\* can_move has accepted a card for a foundation that holds cards already,
\* and the move carried out makes its run one card longer
C37_Witness ==
    /\ returned("can_move")
    /\ q_ret = "True"
    /\ q_call.to \in FoundationNames
    /\ q_state.piles[q_call.to] # <<>>
    /\ LET x == _execute_move(q_state, q_call.pile, q_call.to, q_call.count)
       IN  /\ ~x.raised
           /\ Len(x.new_state.piles[q_call.to]) = Len(q_state.piles[q_call.to]) + 1

\* C38: in every reachable state the pile named foundation_<SUIT> holds
\* only cards of suit <SUIT>: an Ace can be placed only on the empty
\* foundation that bears its own suit name.
C38_FoundationHoldsItsSuit ==
    /\ \A s \in SuitNames :
          \A i \in 1..Len(q_state.piles[FoundationName(s)]) :
              suit(q_state.piles[FoundationName(s)][i]) = s
    /\ ( /\ returned("can_move")
         /\ q_ret = "True"
         /\ q_call.to \in FoundationNames
         /\ is_empty(q_state.piles[q_call.to]) ) =>
          q_call.to = FoundationName(suit(top(get_pile(q_state, q_call.pile))))

\* C39: while the engine is Uninitialized (before the first new_game),
\* move, draw, undo and redo return False, check_win returns False and
\* get_hint returns None; none of them changes the history, notifies an
\* event or makes the game active.  Only new_game takes the engine from
\* Uninitialized to Active.
C39_UninitializedRejects ==
    [][~active =>
          /\ lastOp' \in {"move", "draw", "undo", "redo", "check_win"} =>
                ret' = "False"
          /\ lastOp' = "get_hint" => ret' = "None"
          /\ lastOp' # "new_game" =>
                /\ ~active'
                /\ entries' = entries
                /\ current' = current
                /\ events' = <<>>
          /\ lastOp' = "new_game" => active']_vars

\* get_hint was the last call on an engine that never had a game
C39_Witness ==
    /\ ~active
    /\ lastOp = "get_hint"
    /\ ret = "None"
    /\ entries = <<>>
    /\ current = -1
    /\ events = <<>>

=============================================================================
